---- MODULE Spec2Model ----
(***************************************************************************)
(* A model of the command-line parser of cloud-copilot/cli:                *)
(* parseCliArguments (src/src/cli.ts) with the built-in argument types of  *)
(* src/src/arguments.  Strings are sequences of one-character strings, so  *)
(* that prefix matching, case folding and the camelCase conversions are    *)
(* computed the way the code computes them.  JavaScript objects are        *)
(* sequences of <<key, value>> pairs in insertion order.                   *)
(* The rendering of the help by printOptions is a second state machine, on *)
(* variables of its own.                                                   *)
(***************************************************************************)
EXTENDS Integers, Sequences, FiniteSets, TLC

\* ------------------------------------------------------------------ strings

UpperChars == <<"A","B","C","D","E","F","G","H","I","J","K","L","M",
                "N","O","P","Q","R","S","T","U","V","W","X","Y","Z">>
LowerChars == <<"a","b","c","d","e","f","g","h","i","j","k","l","m",
                "n","o","p","q","r","s","t","u","v","w","x","y","z">>
DigitChars == <<"0","1","2","3","4","5","6","7","8","9">>

IsUpper(c) == \E i \in 1..Len(UpperChars) : UpperChars[i] = c
IsLower(c) == \E i \in 1..Len(LowerChars) : LowerChars[i] = c
IsDigit(c) == \E i \in 1..Len(DigitChars) : DigitChars[i] = c

LowerChar(c) ==
  IF IsUpper(c) THEN LowerChars[CHOOSE i \in 1..Len(UpperChars) : UpperChars[i] = c] ELSE c
UpperChar(c) ==
  IF IsLower(c) THEN UpperChars[CHOOSE i \in 1..Len(LowerChars) : LowerChars[i] = c] ELSE c

\* String.prototype.toLowerCase / toUpperCase
toLowerCase(s) == [i \in 1..Len(s) |-> LowerChar(s[i])]
toUpperCase(s) == [i \in 1..Len(s) |-> UpperChar(s[i])]

\* String.prototype.startsWith
startsWith(s, p) == Len(p) <= Len(s) /\ SubSeq(s, 1, Len(p)) = p

\* String.prototype.slice(n) for 0 <= n
sliceFrom(s, n) == IF n >= Len(s) THEN <<>> ELSE SubSeq(s, n + 1, Len(s))

\* String.prototype.replaceAll(c, '')
RECURSIVE removeAll(_, _)
removeAll(s, c) ==
  IF s = <<>> THEN <<>>
  ELSE IF Head(s) = c THEN removeAll(Tail(s), c)
       ELSE <<Head(s)>> \o removeAll(Tail(s), c)

\* input.replace(/([a-z0-9])([A-Z])/g, '$1' + sep + '$2')
RECURSIVE insertAtCamelBoundaries(_, _)
insertAtCamelBoundaries(s, sep) ==
  IF Len(s) < 2 THEN s
  ELSE IF (IsLower(s[1]) \/ IsDigit(s[1])) /\ IsUpper(s[2])
       THEN <<s[1], sep, s[2]>> \o insertAtCamelBoundaries(SubSeq(s, 3, Len(s)), sep)
       ELSE <<s[1]>> \o insertAtCamelBoundaries(Tail(s), sep)

camelToCapitalSnakeCase(input) == toUpperCase(insertAtCamelBoundaries(input, "_"))
camelToKebabCase(input) == toLowerCase(insertAtCamelBoundaries(input, "-"))

\* String.prototype.split(' '): always at least one piece, pieces may be empty
RECURSIVE splitOnSpace(_)
splitOnSpace(s) ==
  IF \A i \in 1..Len(s) : s[i] # " " THEN <<s>>
  ELSE LET k == CHOOSE i \in 1..Len(s) : s[i] = " " /\ \A j \in 1..(i - 1) : s[j] # " "
       IN  <<SubSeq(s, 1, k - 1)>> \o splitOnSpace(sliceFrom(s, k))

\* String.prototype.slice(start, end): a negative index counts from the end
sliceIndex(s, n) == IF n < 0 THEN (IF Len(s) + n < 0 THEN 0 ELSE Len(s) + n)
                    ELSE (IF n > Len(s) THEN Len(s) ELSE n)
slice(s, start, end) == SubSeq(s, sliceIndex(s, start) + 1, sliceIndex(s, end))
\* String.prototype.slice(start)
sliceTail(s, start) == slice(s, start, Len(s))

\* ' '.repeat(n)
repeat(n) == [i \in 1..n |-> " "]

\* String.prototype.padEnd(n)
padEnd(s, n) == IF Len(s) >= n THEN s ELSE s \o repeat(n - Len(s))

\* String.prototype.trimStart
RECURSIVE trimStart(_)
trimStart(s) == IF s # <<>> /\ Head(s) = " " THEN trimStart(Tail(s)) ELSE s

\* ------------------------------------------------------------------ objects

Has(o, k) == \E i \in 1..Len(o) : o[i][1] = k
Get(o, k) == o[CHOOSE i \in 1..Len(o) : o[i][1] = k][2]
Put(o, k, v) ==
  IF Has(o, k) THEN [i \in 1..Len(o) |-> IF o[i][1] = k THEN <<k, v>> ELSE o[i]]
  ELSE Append(o, <<k, v>>)
Keys(o) == [i \in 1..Len(o) |-> o[i][1]]

\* the property names an object literal inherits from Object.prototype
ObjectPrototypeKeys ==
  {<<"c","o","n","s","t","r","u","c","t","o","r">>,
   <<"h","a","s","O","w","n","P","r","o","p","e","r","t","y">>,
   <<"i","s","P","r","o","t","o","t","y","p","e","O","f">>,
   <<"p","r","o","p","e","r","t","y","I","s","E","n","u","m","e","r","a","b","l","e">>,
   <<"t","o","L","o","c","a","l","e","S","t","r","i","n","g">>,
   <<"t","o","S","t","r","i","n","g">>,
   <<"v","a","l","u","e","O","f">>,
   <<"_","_","p","r","o","t","o","_","_">>,
   <<"_","_","d","e","f","i","n","e","G","e","t","t","e","r","_","_">>,
   <<"_","_","d","e","f","i","n","e","S","e","t","t","e","r","_","_">>,
   <<"_","_","l","o","o","k","u","p","G","e","t","t","e","r","_","_">>,
   <<"_","_","l","o","o","k","u","p","S","e","t","t","e","r","_","_">>}

\* key in o, for an object o made by an object literal or a spread
In(o, k) == Has(o, k) \/ k \in ObjectPrototypeKeys

\* { ...a, ...b }
RECURSIVE Spread(_, _)
Spread(a, b) == IF b = <<>> THEN a ELSE Spread(Put(a, Head(b)[1], Head(b)[2]), Tail(b))

\* ------------------------------------------------------------------- values
\* A JavaScript value is a record [t, v]: the tag and the payload.  An array
\* default of a descriptor is one shared object: every holder of it holds
\* Ref(id), and its content lives in the heap (the variable defaultValue).
\* An array built by validateValues is held by one variable only: Arr(xs).

Undefined == [t |-> "undefined", v |-> <<>>]
Str(s)    == [t |-> "string", v |-> s]
Bool(b)   == [t |-> "boolean", v |-> b]
Arr(xs)   == [t |-> "array", v |-> xs]
Ref(id)   == [t |-> "ref", v |-> id]
MapV(o)   == [t |-> "map", v |-> o]

\* a != b of JavaScript, on the values the built-in types hold
LooseNotEqual(a, b) == ~(a.t = b.t /\ a.v = b.v)

\* the content of a value, with a shared default array read from the heap
Deref(heap, x) == IF x.t = "ref" THEN heap[x.v] ELSE x

\* ------------------------------------------------- built-in argument types
\* A descriptor is [id, kind, defaultValue, character, validValues]:
\* kind is the factory that made it, defaultValue the options.defaultValue it
\* was made with, character "" when it has none.

NoCharacter == ""

stringArgument(id, dflt) ==
  [id |-> id, kind |-> "string", defaultValue |-> dflt,
   character |-> NoCharacter, validValues |-> <<>>]
enumArgument(id, dflt, valid) ==
  [id |-> id, kind |-> "enum", defaultValue |-> dflt,
   character |-> NoCharacter, validValues |-> valid]
stringArrayArgument(id, dflt) ==
  [id |-> id, kind |-> "stringArray", defaultValue |-> dflt,
   character |-> NoCharacter, validValues |-> <<>>]
enumArrayArgument(id, dflt, valid) ==
  [id |-> id, kind |-> "enumArray", defaultValue |-> dflt,
   character |-> NoCharacter, validValues |-> valid]
mapArgument(id, dflt) ==
  [id |-> id, kind |-> "map", defaultValue |-> dflt,
   character |-> NoCharacter, validValues |-> <<>>]
booleanArgument(id, ch) ==
  [id |-> id, kind |-> "boolean", defaultValue |-> Bool(FALSE),
   character |-> ch, validValues |-> <<>>]

\* option.defaultValue, read from the descriptor object
ReadDefaultValue(heap, d) == IF heap[d.id].t = "array" THEN Ref(d.id) ELSE heap[d.id]

HasPresent(d) == d.kind = "boolean"
acceptMultipleValues(d) == d.kind \in {"stringArray", "enumArray", "map"}

Valid(x) == [valid |-> TRUE, value |-> x, message |-> "", detail |-> <<>>]
Invalid(msg, detail) == [valid |-> FALSE, value |-> Undefined, message |-> msg, detail |-> detail]

\* validValues.find((v) => v.toLowerCase() === value.toLowerCase())
EnumMatches(valid, value) ==
  {i \in 1..Len(valid) : toLowerCase(valid[i]) = toLowerCase(value)}
EnumFind(valid, value) ==
  valid[CHOOSE i \in EnumMatches(valid, value) : \A j \in EnumMatches(valid, value) : i <= j]

singleValueValidate(d, currentValue, values) ==
  IF currentValue.t # "undefined" /\ LooseNotEqual(currentValue, d.defaultValue)
  THEN Invalid("expects a single values but was set multiple times", <<>>)
  ELSE IF Len(values) = 0 THEN Invalid("a value is required", <<>>)
  ELSE IF Len(values) > 1 THEN Invalid("expects a single value but received", values)
  ELSE Valid(Str(values[1]))

enumValidate(d, currentValue, values) ==
  IF Len(values) = 0 THEN Invalid("a value is required", <<>>)
  ELSE IF LooseNotEqual(currentValue, d.defaultValue)
  THEN Invalid("expects a single value but was set multiple times", <<>>)
  ELSE IF Len(values) > 1 THEN Invalid("expects a single value but received", values)
  ELSE IF EnumMatches(d.validValues, values[1]) = {}
  THEN Invalid("is not one of the allowed values", <<values[1]>>)
  ELSE Valid(Str(EnumFind(d.validValues, values[1])))

arrayValueValidate(d, currentValue, values) ==
  IF Len(values) = 0 THEN Invalid("at least one value is required", <<>>)
  ELSE Valid(Arr([i \in 1..Len(values) |-> Str(values[i])]))

RECURSIVE enumArrayInvalid(_, _)
enumArrayInvalid(valid, values) ==
  IF values = <<>> THEN <<>>
  ELSE (IF EnumMatches(valid, Head(values)) = {} THEN <<Head(values)>> ELSE <<>>)
       \o enumArrayInvalid(valid, Tail(values))

enumArrayValidate(d, currentValue, values) ==
  IF Len(values) = 0 THEN Invalid("At least one value is required", <<>>)
  ELSE IF enumArrayInvalid(d.validValues, values) # <<>>
  THEN Invalid("is not one of the allowed values", enumArrayInvalid(d.validValues, values))
  ELSE Valid(Arr([i \in 1..Len(values) |-> Str(EnumFind(d.validValues, values[i]))]))

mapValidate(d, currentValue, values) ==
  IF Len(values) = 0 \/ (Len(values) > 0 /\ values[1] = <<>>)
  THEN Invalid("a key is required and at least one value is required", <<>>)
  ELSE IF Len(values) < 2 THEN Invalid("requires at least one value", <<values[1]>>)
  ELSE IF currentValue.t = "map" /\ In(currentValue.v, values[1])
  THEN Invalid("is set multiple times", <<values[1]>>)
  ELSE Valid(MapV(<<<<values[1], Tail(values)>>>>))

booleanValidate(d, currentValue, values) ==
  IF Len(values) = 0 THEN Valid(Bool(TRUE))
  ELSE Invalid("does not accept values but received", values)

validateValues(d, currentValue, values) ==
  CASE d.kind = "string"      -> singleValueValidate(d, currentValue, values)
    [] d.kind = "enum"        -> enumValidate(d, currentValue, values)
    [] d.kind = "stringArray" -> arrayValueValidate(d, currentValue, values)
    [] d.kind = "enumArray"   -> enumArrayValidate(d, currentValue, values)
    [] d.kind = "map"         -> mapValidate(d, currentValue, values)
    [] d.kind = "boolean"     -> booleanValidate(d, currentValue, values)

\* reduceValues gives the new value and the heap: current.push(...newValues)
\* on the descriptor's default array changes that array for every holder.
arrayReduce(heap, current, newValues) ==
  IF current.t = "undefined" THEN [value |-> newValues, heap |-> heap]
  ELSE IF current.t = "ref"
  THEN [value |-> current,
        heap |-> [heap EXCEPT ![current.v] = Arr(heap[current.v].v \o newValues.v)]]
  ELSE [value |-> Arr(current.v \o newValues.v), heap |-> heap]

mapReduce(heap, current, newValue) ==
  IF current.t = "undefined" THEN [value |-> newValue, heap |-> heap]
  ELSE [value |-> MapV(Spread(current.v, newValue.v)), heap |-> heap]

reduceValues(d, heap, current, newValue) ==
  CASE d.kind \in {"string", "enum"}            -> [value |-> newValue, heap |-> heap]
    [] d.kind \in {"stringArray", "enumArray"}  -> arrayReduce(heap, current, newValue)
    [] d.kind = "map"                           -> mapReduce(heap, current, newValue)
    [] d.kind = "boolean"                       -> [value |-> current, heap |-> heap]

\* present(currentValue) of booleanArgument
present(d, currentValue) == Bool(TRUE)

\* ------------------------------------------------------------ groupArguments
\* An ArgumentChunk is [first, rest, isFirst, isLast].

Dash == "-"
Separator == <<"-", "-">>

Chunk(cur, grouped, last) ==
  [first |-> Head(cur), rest |-> Tail(cur), isFirst |-> Len(grouped) = 0, isLast |-> last]

\* groupLoop with the tail of the -- chunk taken from the -- itself
RECURSIVE groupLoopSliceAtSeparator(_, _, _, _)
groupLoopSliceAtSeparator(args, i, grouped, currentChunk) ==
  IF i > Len(args)
  THEN IF Len(currentChunk) > 0
       THEN Append(grouped, Chunk(currentChunk, grouped, TRUE))
       ELSE grouped
  ELSE IF args[i] = Separator
  THEN LET withSep == Append(grouped, [first |-> args[i], rest |-> sliceFrom(args, i - 1),
                                       isFirst |-> Len(grouped) = 0, isLast |-> TRUE])
       IN  IF Len(currentChunk) > 0
           THEN Append(withSep, Chunk(currentChunk, withSep, TRUE))
           ELSE withSep
  ELSE IF startsWith(args[i], <<Dash>>) /\ Len(currentChunk) > 0
  THEN groupLoopSliceAtSeparator(args, i + 1,
                                 Append(grouped, Chunk(currentChunk, grouped, FALSE)), <<args[i]>>)
  ELSE groupLoopSliceAtSeparator(args, i + 1, grouped, Append(currentChunk, args[i]))

\* the for loop from index i, with the chunks pushed so far and the current chunk
RECURSIVE groupLoop(_, _, _, _)
groupLoop(args, i, grouped, currentChunk) ==
  IF i > Len(args)
  THEN IF Len(currentChunk) > 0
       THEN Append(grouped, Chunk(currentChunk, grouped, TRUE))
       ELSE grouped
  ELSE IF args[i] = Separator
  THEN LET withSep == Append(grouped, [first |-> args[i], rest |-> sliceFrom(args, i),
                                       isFirst |-> Len(grouped) = 0, isLast |-> TRUE])
       IN  IF Len(currentChunk) > 0
           THEN Append(withSep, Chunk(currentChunk, withSep, TRUE))
           ELSE withSep
  ELSE IF startsWith(args[i], <<Dash>>) /\ Len(currentChunk) > 0
  THEN groupLoop(args, i + 1, Append(grouped, Chunk(currentChunk, grouped, FALSE)), <<args[i]>>)
  ELSE groupLoop(args, i + 1, grouped, Append(currentChunk, args[i]))

groupArguments(args) == groupLoop(args, 1, <<>>, <<>>)

\* ------------------------------------------------------------------- state

VARIABLES
  \* the call: parseCliArguments(command, subcommands, cliArgs, additionalOptions)
  subcommands,           \* <<name, arguments>> pairs; arguments as cliArgs
  cliArgs,               \* <<key, descriptor>> pairs, in declaration order
  additionalOptions,     \* [args, env, envPrefix, requireSubcommand,
                         \*  showHelpIfNoArgs, expectOperands, version]
  exitReturns,           \* TRUE when exit is replaced by a function that returns
                         \* (vi.mock('./utils.js')), FALSE for process.exit
  defaultValue,          \* descriptor id -> the descriptor's defaultValue now
  \* the locals of parseCliArguments
  parsedArgs, operands, booleanOptions, combinedOptions, subcommand,
  allDefaults, isSetByCli, parsedEnvironmentArgs, commandChunks,
  \* what the call has done so far
  exitCalls,             \* the calls of exit, in order: [code, message, detail]
  hookLog,               \* the calls of present / validateValues / reduceValues
  console,               \* what was printed: "help", "version"
  status,                \* "running", "exited" (the process ended), "returned"
  result,                \* what the caller received
  pc, chunkIndex,
  \* a call of printOptions(cliOptions, logger)
  cliOptions,            \* <<key, [character, description]>> pairs
  terminalWidth,         \* process.stdout.columns ?? 80
  logger,                \* [lines, written]: the last MaxLines lines logged and
                         \* the number of lines logged, modulo MaxLines + 1
  optionIndex,           \* the entry of cliOptions the for loop is at
  leftBar, stringToPrint,
  helpPc                 \* "idle", "options", "wrap", "returned"

inputs == <<subcommands, cliArgs, additionalOptions, exitReturns>>
locals == <<parsedArgs, operands, booleanOptions, combinedOptions, subcommand,
            allDefaults, isSetByCli, parsedEnvironmentArgs, commandChunks>>
helpVars == <<cliOptions, terminalWidth, logger, optionIndex, leftBar, stringToPrint, helpPc>>
vars == <<inputs, defaultValue, locals, exitCalls, hookLog, console, status, result,
          pc, chunkIndex, helpVars>>

\* The locals and effects of a call as one record, so that the steps of the
\* function are operators from frame to frame.
Call ==
  [subcommands |-> subcommands, cliArgs |-> cliArgs, options |-> additionalOptions,
   exitReturns |-> exitReturns]

Frame ==
  [call |-> Call, parsedArgs |-> parsedArgs, operands |-> operands, booleanOptions |-> booleanOptions,
   combinedOptions |-> combinedOptions, subcommand |-> subcommand,
   allDefaults |-> allDefaults, isSetByCli |-> isSetByCli,
   parsedEnvironmentArgs |-> parsedEnvironmentArgs, heap |-> defaultValue,
   exitCalls |-> exitCalls, hookLog |-> hookLog, console |-> console,
   status |-> status, result |-> result]

Store(f) ==
  /\ parsedArgs' = f.parsedArgs
  /\ operands' = f.operands
  /\ booleanOptions' = f.booleanOptions
  /\ combinedOptions' = f.combinedOptions
  /\ subcommand' = f.subcommand
  /\ allDefaults' = f.allDefaults
  /\ isSetByCli' = f.isSetByCli
  /\ parsedEnvironmentArgs' = f.parsedEnvironmentArgs
  /\ defaultValue' = f.heap
  /\ exitCalls' = f.exitCalls
  /\ hookLog' = f.hookLog
  /\ console' = f.console
  /\ status' = f.status
  /\ result' = f.result

Store0(f) ==
  /\ parsedArgs = f.parsedArgs
  /\ operands = f.operands
  /\ booleanOptions = f.booleanOptions
  /\ combinedOptions = f.combinedOptions
  /\ subcommand = f.subcommand
  /\ allDefaults = f.allDefaults
  /\ isSetByCli = f.isSetByCli
  /\ parsedEnvironmentArgs = f.parsedEnvironmentArgs
  /\ defaultValue = f.heap
  /\ exitCalls = f.exitCalls
  /\ hookLog = f.hookLog
  /\ console = f.console
  /\ status = f.status
  /\ result = f.result

EmptyResult == [populated |-> FALSE, args |-> <<>>, operands |-> <<>>,
                subcommand |-> Undefined, anyValues |-> FALSE]

\* exit(exitCode, message): process.exit ends the process; the replaced exit
\* of the test suite returns to the caller.
exit(f, exitCode, message, detail) ==
  [f EXCEPT !.exitCalls = Append(@, [code |-> exitCode, message |-> message,
                                     detail |-> detail]),
            !.status = IF f.call.exitReturns THEN @ ELSE "exited"]

\* return {} as any
returnEmpty(f) ==
  IF f.status = "running" THEN [f EXCEPT !.status = "returned", !.result = EmptyResult]
  ELSE f

\* the help is printed; its rendering by printOptions is modelled on its own
\* below, and is taken to return here
printHelpContents(f) == [f EXCEPT !.console = Append(@, "help")]
printVersion(f) == [f EXCEPT !.console = Append(@, "version")]

Hook(name, phase, key, values, ok) ==
  [hook |-> name, phase |-> phase, key |-> key, values |-> values, ok |-> ok]

\* ------------------------------------------------------------ the functions

RECURSIVE initializeOptionDefaults(_, _)
initializeOptionDefaults(f, cliArguments) ==
  IF cliArguments = <<>> THEN f
  ELSE LET key == Head(cliArguments)[1]
           option == Head(cliArguments)[2]
           f1 == [f EXCEPT !.allDefaults = Put(@, key, ReadDefaultValue(f.heap, option))]
           f2 == IF option.character # NoCharacter
                 THEN [f1 EXCEPT !.booleanOptions = Put(@, LowerChar(option.character), key)]
                 ELSE f1
       IN  initializeOptionDefaults(f2, Tail(cliArguments))

initializeDefault(heap, obj, cliArguments, key) ==
  IF ~Has(obj, key) THEN Put(obj, key, ReadDefaultValue(heap, Get(cliArguments, key)))
  ELSE obj

\* envToKeys[optionKey]: the last key whose CAPITAL_SNAKE form is optionKey
envToKeysMatches(cliArguments, optionKey) ==
  {i \in 1..Len(cliArguments) : camelToCapitalSnakeCase(cliArguments[i][1]) = optionKey}
envToKeys(cliArguments, optionKey) ==
  cliArguments[CHOOSE i \in envToKeysMatches(cliArguments, optionKey) :
                 \A j \in envToKeysMatches(cliArguments, optionKey) : j <= i][1]

\* lines 504-509: the reduced value is stored
envReduce(f, option, values, r) ==
  [f EXCEPT !.parsedEnvironmentArgs = Put(@, option, r.value),
            !.heap = r.heap,
            !.isSetByCli = Put(@, option, TRUE),
            !.hookLog = Append(@, Hook("reduce", "env", option, values, TRUE))]

\* lines 499-509: the outcome of validateValues; done is TRUE when the
\* function has returned
envValidated(f, key, option, config, values, validation) ==
  IF ~validation.valid
  THEN [f |-> exit([f EXCEPT !.hookLog = Append(@, Hook("validate", "env", option, values, FALSE))],
                   2, "Invalid value for environment", <<key>>),
        done |-> TRUE]
  ELSE [f |-> envReduce([f EXCEPT !.hookLog = Append(@, Hook("validate", "env", option, values, TRUE))],
                        option, values,
                        reduceValues(config, f.heap, Get(f.parsedEnvironmentArgs, option),
                                     validation.value)),
        done |-> FALSE]

\* envValues with the variable of a flag validated like any other
envValuesWithFlagsValidated(f, key, option, config, values) ==
  envValidated(f, key, option, config, values,
               validateValues(config, Get(f.parsedEnvironmentArgs, option), values))

\* lines 492-498: the variable is split and validated, unless the argument
\* has a character
envValues(f, key, option, config, values) ==
  IF config.character # NoCharacter THEN [f |-> f, done |-> FALSE]
  ELSE envValidated(f, key, option, config, values,
                    validateValues(config, Get(f.parsedEnvironmentArgs, option), values))

\* lines 488-491: initializeDefault and present
envPresent(f, cliArguments, option, config) ==
  IF HasPresent(config)
  THEN [f EXCEPT !.parsedEnvironmentArgs =
                    Put(initializeDefault(f.heap, @, cliArguments, option), option,
                        present(config, Get(initializeDefault(f.heap, @, cliArguments, option),
                                            option))),
                 !.hookLog = Append(@, Hook("present", "env", option, <<>>, TRUE))]
  ELSE [f EXCEPT !.parsedEnvironmentArgs = initializeDefault(f.heap, @, cliArguments, option)]

\* lines 486-511: the entry names the argument option
envOption(f, cliArguments, key, value, option) ==
  envValues(envPresent(f, cliArguments, option, Get(cliArguments, option)),
            key, option, Get(cliArguments, option), splitOnSpace(value))

\* the body of the for loop of parseEnvironmentVariables for one entry of env
envEntry(f, cliArguments, key, value) ==
  LET prefix == f.call.options.envPrefix \o <<"_">>
      optionKey == sliceFrom(key, Len(prefix))
  IN
  IF ~startsWith(key, prefix) \/ envToKeysMatches(cliArguments, optionKey) = {}
  THEN [f |-> f, done |-> FALSE]
  ELSE envOption(f, cliArguments, key, value, envToKeys(cliArguments, optionKey))

RECURSIVE envLoop(_, _, _)
envNext(r, cliArguments, entries) ==
  IF r.done THEN r.f ELSE envLoop(r.f, cliArguments, Tail(entries))

envLoop(f, cliArguments, entries) ==
  IF entries = <<>> \/ f.status # "running" THEN f
  ELSE envNext(envEntry(f, cliArguments, Head(entries)[1], Head(entries)[2]),
               cliArguments, entries)

parseEnvironmentVariables(f, cliArguments) ==
  IF f.call.options.envPrefix = <<>> THEN f
  ELSE envLoop(f, cliArguments, f.call.options.env)

\* ------------------------------------------------------------ printOptions
\* An option of the help is [character, description].

HelpOption(ch, description) == [character |-> ch, description |-> description]

\* Object.keys(cliOptions).reduce((acc, key) =>
\*   Math.max(acc, camelToKebabCase(key).length + 2), 0) + 1
RECURSIVE longestKey(_, _)
longestKey(options, acc) ==
  IF options = <<>> THEN acc
  ELSE longestKey(Tail(options),
                  IF Len(camelToKebabCase(Head(options)[1])) + 2 > acc
                  THEN Len(camelToKebabCase(Head(options)[1])) + 2 ELSE acc)
longestOption(options) == longestKey(options, 0) + 1

\* lines 678-683: the left column of an option, the name and the character
leftColumn(options, key, option) ==
  padEnd(<<" ", " ", "-", "-">> \o camelToKebabCase(key) \o <<":">>, longestOption(options) + 3)
  \o (IF option.character # NoCharacter
      THEN <<"(", "-", option.character, ")", " ">>
      ELSE repeat(5))

\* line 685: the left column followed by the description
optionString(options, key, option) == leftColumn(options, key, option) \o option.description

\* line 692: the line logged by one iteration of the while loop
wrappedLine(bar, rest, secondLineLength) ==
  repeat(bar) \o trimStart(slice(rest, 0, secondLineLength))

\* ---------------------------------------------------- parseCliArguments

HelpToken == <<"-","-","h","e","l","p">>
VersionToken == <<"-","-","v","e","r","s","i","o","n">>
UndefinedKey == <<"u","n","d","e","f","i","n","e","d">>

numberOfSubcommands(f) == Len(f.call.subcommands)

\* subcommandKeys.filter((cmd) => cmd.toLowerCase().startsWith(first.toLowerCase()))
matchingCommands(f, first) ==
  SelectSeq(Keys(f.call.subcommands), LAMBDA cmd : startsWith(toLowerCase(cmd), toLowerCase(first)))

\* first.slice(2).replaceAll('-', '').toLowerCase()
argumentKey(first) == toLowerCase(removeAll(sliceFrom(first, 2), Dash))

\* Object.keys(combinedOptions).filter((k) => k.toLowerCase().startsWith(key))
matchingOptions(options, key) ==
  SelectSeq(Keys(options), LAMBDA k : startsWith(toLowerCase(k), key))

\* exactMatch taken to be the first of the candidates
exactMatchFirstCandidate(matching, key) == matching[1]

\* matchingOptions.find((k) => k.toLowerCase() === key); <<>> for undefined
exactMatch(matching, key) ==
  LET hits == SelectSeq(matching, LAMBDA k : toLowerCase(k) = key)
  IN  IF hits = <<>> THEN <<>> ELSE hits[1]

\* chunkHelpVersion with the version printed whether or not one is configured
chunkHelpVersionUnconfigured(f, c) ==
  IF f.status # "running" THEN f
  ELSE IF c.first = HelpToken
  THEN returnEmpty(exit(printHelpContents(f), 0, "", <<>>))
  ELSE IF c.first = VersionToken
  THEN returnEmpty(exit(printVersion(f), 0, "", <<>>))
  ELSE f

\* lines 214-226: --help and --version
chunkHelpVersion(f, c) ==
  IF f.status # "running" THEN f
  ELSE IF c.first = HelpToken
  THEN returnEmpty(exit(printHelpContents(f), 0, "", <<>>))
  ELSE IF c.first = VersionToken /\ f.call.options.version
  THEN returnEmpty(exit(printVersion(f), 0, "", <<>>))
  ELSE f

\* lines 261-264: the options of the subcommand are added, its tail is operands
addSubcommandOptions(f, c, subcommandOptions) ==
  IF f.status # "running" THEN f
  ELSE [f EXCEPT !.combinedOptions = Spread(@, subcommandOptions),
                 !.operands = @ \o c.rest]

\* lines 252-260: defaults and environment of the subcommand's arguments
initializeSubcommand(f, c, subcommandOptions) ==
  addSubcommandOptions(
    parseEnvironmentVariables(initializeOptionDefaults(f, subcommandOptions), subcommandOptions),
    c, subcommandOptions)

\* lines 251-264: the subcommand is selected
selectSubcommand(f, c, name) ==
  initializeSubcommand([f EXCEPT !.subcommand = Str(name)], c, Get(f.call.subcommands, name))

\* lines 240-264: the first token is matched against the subcommands
matchCommand(f, c, matching) ==
  IF f.status # "running" THEN f
  ELSE IF Len(matching) = 0 THEN returnEmpty(exit(f, 2, "Unknown command", <<c.first>>))
  ELSE IF Len(matching) > 1 THEN returnEmpty(exit(f, 2, "Ambiguous command", <<c.first>>))
  ELSE selectSubcommand(f, c, matching[1])

\* lines 229-266: a first chunk that starts with a bare word
chunkCommand(f, c) ==
  IF f.status # "running" \/ ~(c.isFirst /\ ~startsWith(c.first, <<Dash>>)) THEN f
  ELSE IF numberOfSubcommands(f) = 0
  THEN IF c.isLast THEN [f EXCEPT !.operands = @ \o <<c.first>> \o c.rest]
       ELSE exit(f, 2, "Invalid: all arguments must specified using a --argument", <<c.first>>)
  ELSE matchCommand(IF ~c.isLast /\ Len(c.rest) > 0
                    THEN exit(f, 2, "Arguments must be specified using a --argument", c.rest)
                    ELSE f,
                    c, matchingCommands(f, c.first))

\* lines 303-306: no option was matched; name is <<>> when the function has
\* exited or returned
noMatchingOption(f, c) ==
  IF f.status # "running" THEN [f |-> f, name |-> <<>>]
  ELSE [f |-> returnEmpty(exit(f, 2, "Unknown argument", <<c.first>>)), name |-> <<>>]

\* lines 283-289: several names match
severalMatchingOptions(f, c, exact) ==
  IF exact # <<>> THEN [f |-> f, name |-> exact]
  ELSE noMatchingOption(exit(f, 2, "Ambiguous argument", <<c.first>>), c)

\* lines 280-306: the option is chosen among the names that match
chooseMatchingOption(f, c, key, matching) ==
  IF Len(matching) = 1 THEN [f |-> f, name |-> matching[1]]
  ELSE IF Len(matching) > 1 THEN severalMatchingOptions(f, c, exactMatch(matching, key))
  ELSE IF startsWith(HelpToken, c.first)
  THEN [f |-> returnEmpty(exit(printHelpContents(f), 0, "", <<>>)), name |-> <<>>]
  ELSE IF startsWith(VersionToken, c.first) /\ f.call.options.version
  THEN [f |-> returnEmpty(exit(printVersion(f), 0, "", <<>>)), name |-> <<>>]
  ELSE noMatchingOption(exit(f, 2, "Unknown argument", <<c.first>>), c)

\* lines 275-306: the name of a --argument is resolved
resolveArgument(f, c) ==
  chooseMatchingOption(f, c, argumentKey(c.first),
                       matchingOptions(f.combinedOptions, argumentKey(c.first)))

\* lines 358-363: the reduced value is stored
argumentReduce(f, selectedArgument, theRest, r) ==
  [f EXCEPT !.parsedArgs = Put(@, selectedArgument, r.value),
            !.heap = r.heap,
            !.isSetByCli = Put(@, selectedArgument, TRUE),
            !.hookLog = Append(@, Hook("reduce", "cli", selectedArgument, theRest, TRUE))]

\* argumentValidated with reduceValues called whatever validateValues said
argumentValidatedAlwaysReduces(f, selectedArgument, optionConfig, theRest, validation) ==
  argumentReduce([f EXCEPT !.hookLog = Append(@, Hook("validate", "cli", selectedArgument,
                                                      theRest, validation.valid))],
                 selectedArgument, theRest,
                 reduceValues(optionConfig, f.heap, Get(f.parsedArgs, selectedArgument),
                              validation.value))

\* lines 354-364: the outcome of validateValues
argumentValidated(f, selectedArgument, optionConfig, theRest, validation) ==
  IF ~validation.valid
  THEN returnEmpty(exit([f EXCEPT !.hookLog = Append(@, Hook("validate", "cli", selectedArgument,
                                                             theRest, FALSE))],
                        2, validation.message, <<selectedArgument>>))
  ELSE argumentReduce([f EXCEPT !.hookLog = Append(@, Hook("validate", "cli", selectedArgument,
                                                           theRest, TRUE))],
                      selectedArgument, theRest,
                      reduceValues(optionConfig, f.heap, Get(f.parsedArgs, selectedArgument),
                                   validation.value))

\* lines 348-353: validateValues with the current value and the values kept
argumentValidate(f, selectedArgument, optionConfig, theRest) ==
  argumentValidated(f, selectedArgument, optionConfig, theRest,
                    validateValues(optionConfig, Get(f.parsedArgs, selectedArgument), theRest))

\* lines 336-364: the values of a --argument are validated and reduced
argumentValues(f, c, selectedArgument, optionConfig) ==
  IF ~acceptMultipleValues(optionConfig) /\ Len(c.rest) > 1 /\ c.isLast
     /\ f.call.options.expectOperands
  THEN argumentValidate([f EXCEPT !.operands = @ \o Tail(c.rest)], selectedArgument,
                        optionConfig, <<c.rest[1]>>)
  ELSE argumentValidate(f, selectedArgument, optionConfig, c.rest)

\* lines 316-365: the values that follow the argument
argumentRest(f, c, selectedArgument, optionConfig) ==
  IF Len(c.rest) > 0 /\ optionConfig.character # NoCharacter
  THEN IF ~c.isLast \/ ~f.call.options.expectOperands
       THEN returnEmpty(exit(f, 2, "does not accept values but received", <<selectedArgument>>))
       ELSE [f EXCEPT !.operands = @ \o c.rest]
  ELSE argumentValues(f, c, selectedArgument, optionConfig)

\* lines 311-314: initializeDefault and present
argumentPresent(f, selectedArgument, optionConfig) ==
  IF HasPresent(optionConfig)
  THEN [f EXCEPT !.parsedArgs =
                    Put(initializeDefault(f.heap, @, f.combinedOptions, selectedArgument),
                        selectedArgument,
                        present(optionConfig,
                                Get(initializeDefault(f.heap, @, f.combinedOptions, selectedArgument),
                                    selectedArgument))),
                 !.hookLog = Append(@, Hook("present", "cli", selectedArgument, <<>>, TRUE))]
  ELSE [f EXCEPT !.parsedArgs = initializeDefault(f.heap, @, f.combinedOptions, selectedArgument)]

\* lines 308-365: the argument is selected
selectArgument(f, c, name, optionConfig) ==
  argumentRest(argumentPresent(f, name, optionConfig), c, name, optionConfig)

\* lines 303-365: after the resolution of the name
resolvedArgument(f, c, r) ==
  IF r.name = <<>> THEN r.f
  ELSE selectArgument(f, c, r.name, Get(f.combinedOptions, r.name))

\* lines 274-365: a chunk headed by a --argument
chunkArgument(f, c) == resolvedArgument(f, c, resolveArgument(f, c))

\* lines 385-386 for a character that is not in booleanOptions, when exit
\* has returned: key is undefined, and parsedArgs[undefined] = true
undefinedFlag(f) ==
  IF f.status # "running" THEN f
  ELSE [f EXCEPT !.parsedArgs = Put(@, UndefinedKey, Bool(TRUE))]

\* lines 381-387: for (const char of first.slice(1))
RECURSIVE shortOptions(_, _)
shortOptions(f, chars) ==
  IF chars = <<>> \/ f.status # "running" THEN f
  ELSE IF ~Has(f.booleanOptions, Head(chars))
  THEN shortOptions(undefinedFlag(exit(f, 2, "Unknown flag", <<Head(chars)>>)), Tail(chars))
  ELSE shortOptions([f EXCEPT !.parsedArgs = Put(@, Get(f.booleanOptions, Head(chars)), Bool(TRUE))],
                    Tail(chars))

\* lines 366-388: a chunk headed by a single-dash cluster
chunkFlags(f, c) ==
  IF Len(c.rest) > 0 /\ (~c.isLast \/ ~f.call.options.expectOperands)
  THEN returnEmpty(exit(f, 2, "Boolean flag(s) should not have values but received", c.rest))
  ELSE shortOptions([f EXCEPT !.operands = @ \o c.rest], sliceFrom(c.first, 1))

\* lines 269-388: the chunk by its head
chunkOptions(f, c) ==
  IF f.status # "running" THEN f
  ELSE IF c.first = Separator
  THEN LET f1 == IF ~f.call.options.expectOperands
                 THEN exit(f, 2, "Operands are not expected but '--' separator was used", <<>>)
                 ELSE f
       IN  IF f1.status # "running" THEN f1 ELSE [f1 EXCEPT !.operands = @ \o c.rest]
  ELSE IF startsWith(c.first, Separator) THEN chunkArgument(f, c)
  ELSE IF startsWith(c.first, <<Dash>>) THEN chunkFlags(f, c)
  ELSE f

\* one iteration of the loop over commandChunks (lines 212-389)
processChunk(f, c) == chunkOptions(chunkCommand(chunkHelpVersion(f, c), c), c)

\* begin with showHelpIfNoArgs reported as an error
beginShowHelpAsError(f) ==
  IF Len(f.call.options.args) = 0 /\ f.call.options.showHelpIfNoArgs
  THEN returnEmpty(exit(printHelpContents(f), 2, "", <<>>))
  ELSE parseEnvironmentVariables(initializeOptionDefaults(f, f.call.cliArgs), f.call.cliArgs)

\* lines 173-209: up to the grouping of the arguments
begin(f) ==
  IF Len(f.call.options.args) = 0 /\ f.call.options.showHelpIfNoArgs
  THEN returnEmpty(exit(printHelpContents(f), 0, "", <<>>))
  ELSE parseEnvironmentVariables(initializeOptionDefaults(f, f.call.cliArgs), f.call.cliArgs)

\* { ...allDefaults, ...parsedEnvironmentArgs, ...parsedArgs }, as the caller reads it
resultArgs(f) ==
  LET merged == Spread(Spread(f.allDefaults, f.parsedEnvironmentArgs), f.parsedArgs)
  IN  [i \in 1..Len(merged) |-> <<merged[i][1], Deref(f.heap, merged[i][2])>>]

\* finish without the check of the operands against expectOperands
finishWithoutOperandCheck(f) ==
  LET f1 == IF numberOfSubcommands(f) > 0 /\ f.call.options.requireSubcommand
               /\ f.subcommand = Undefined
            THEN exit(f, 2, "A subcommand is required", <<>>)
            ELSE f
  IN  IF f1.status # "running" THEN f1
      ELSE [f1 EXCEPT !.status = "returned",
                      !.result = [populated |-> TRUE,
                                  args |-> resultArgs(f1),
                                  operands |-> IF f.call.options.expectOperands
                                               THEN f1.operands ELSE <<>>,
                                  subcommand |-> f1.subcommand,
                                  anyValues |-> Len(f.call.options.args) > 0]]

\* lines 391-410: the checks after the loop and the returned object
finish(f) ==
  LET f1 == IF numberOfSubcommands(f) > 0 /\ f.call.options.requireSubcommand
               /\ f.subcommand = Undefined
            THEN exit(f, 2, "A subcommand is required", <<>>)
            ELSE f
      f2 == IF f1.status = "running" /\ ~f.call.options.expectOperands /\ Len(f1.operands) > 0
            THEN exit(f1, 2, "Operands are not expected but received", f1.operands)
            ELSE f1
  IN  IF f2.status # "running" THEN f2
      ELSE [f2 EXCEPT !.status = "returned",
                      !.result = [populated |-> TRUE,
                                  args |-> resultArgs(f2),
                                  operands |-> IF f.call.options.expectOperands
                                               THEN f2.operands ELSE <<>>,
                                  subcommand |-> f2.subcommand,
                                  anyValues |-> Len(f.call.options.args) > 0]]

\* the state of the locals when the function is entered
InitialFrame(call, heap) ==
  [call |-> call, parsedArgs |-> <<>>, operands |-> <<>>, booleanOptions |-> <<>>,
   combinedOptions |-> call.cliArgs, subcommand |-> Undefined,
   allDefaults |-> <<>>, isSetByCli |-> <<>>, parsedEnvironmentArgs |-> <<>>, heap |-> heap,
   exitCalls |-> <<>>, hookLog |-> <<>>, console |-> <<>>,
   status |-> "running", result |-> EmptyResult]

RECURSIVE loopChunks(_, _, _)
loopChunks(f, chunks, i) ==
  IF i > Len(chunks) \/ f.status # "running" THEN f
  ELSE loopChunks(processChunk(f, chunks[i]), chunks, i + 1)

\* the whole call as a function of its inputs: the frame it ends with
parseCliArguments(call, heap) ==
  LET f == begin(InitialFrame(call, heap))
      g == loopChunks(f, groupArguments(call.options.args), 1)
  IN  IF f.status # "running" THEN f
      ELSE IF g.status # "running" THEN g
      ELSE finish(g)

\* --------------------------------------------------------------- scenarios
\* The calls that are explored: a configuration, the tokens argv is made of,
\* and the environments.  Argument names, tokens and values are spelled out
\* as character sequences.

MaxArgs == 4

s_name == <<"n","a","m","e">>
s_tag  == <<"t","a","g">>
s_dry  == <<"d","r","y">>
s_add  == <<"a","d","d">>
s_all  == <<"a","l","l">>
s_a    == <<"a">>
s_b    == <<"b">>
s_x    == <<"x">>

t_name == <<"-","-","n","a","m","e">>
t_tag  == <<"-","-","t","a","g">>
t_dry  == <<"-","-","d","r","y">>

NoEnv == <<>>
NoPrefix == <<>>

\* one string, one string array with an empty default, one boolean flag
TypesScenario ==
  [cliArgs |-> << <<s_name, stringArgument("name", Undefined)>>,
                  <<s_tag, stringArrayArgument("tag", Arr(<<>>))>>,
                  <<s_dry, booleanArgument("dry", "d")>> >>,
   subcommands |-> <<>>,
   tokens |-> {t_name, t_tag, t_dry, Separator, s_a, s_b},
   argsCap |-> MaxArgs,
   envs |-> {NoEnv},
   envPrefix |-> NoPrefix,
   version |-> {FALSE},
   requireSubcommand |-> {FALSE},
   showHelpIfNoArgs |-> {FALSE}]

\* two subcommands with a common first letter; add has a string array with no default
SubcommandScenario ==
  [cliArgs |-> <<>>,
   subcommands |-> << <<s_add, << <<s_tag, stringArrayArgument("add.tag", Undefined)>> >> >>,
                      <<s_all, <<>> >> >>,
   tokens |-> {s_add, s_a, s_x, t_tag, HelpToken, Separator},
   argsCap |-> MaxArgs,
   envs |-> {NoEnv},
   envPrefix |-> NoPrefix,
   version |-> {FALSE},
   requireSubcommand |-> {FALSE},
   showHelpIfNoArgs |-> {FALSE}]

s_kind == <<"k","i","n","d">>
s_map  == <<"m","a","p">>
s_e    == <<"e">>
s_d    == <<"d">>
t_kind == <<"-","-","k","i","n","d">>
t_map  == <<"-","-","m","a","p">>

EnvPrefix == <<"P">>
P_NAME == <<"P","_","N","A","M","E">>
P_TAG  == <<"P","_","T","A","G">>
P_KIND == <<"P","_","K","I","N","D">>
P_MAP  == <<"P","_","M","A","P">>
P_DRY  == <<"P","_","D","R","Y">>

\* every built-in type with an environment prefix: a string with a default, a
\* string array with no default, an enum array with an empty default, a map
\* and a boolean flag
EnvScenario ==
  [cliArgs |-> << <<s_name, stringArgument("name", Str(s_d))>>,
                  <<s_tag, stringArrayArgument("tag", Undefined)>>,
                  <<s_kind, enumArrayArgument("kind", Arr(<<>>), <<s_a, s_e>>)>>,
                  <<s_map, mapArgument("map", Undefined)>>,
                  <<s_dry, booleanArgument("dry", "d")>> >>,
   subcommands |-> <<>>,
   tokens |-> {t_name, t_tag, t_kind, t_map, t_dry, s_a, s_e},
   argsCap |-> MaxArgs - 1,
   envs |-> {NoEnv,
             << <<P_NAME, s_e>> >>, << <<P_TAG, s_e>> >>, << <<P_KIND, s_e>> >>,
             << <<P_MAP, <<"a", " ", "e">> >> >>, << <<P_DRY, s_e>> >>,
             << <<P_KIND, <<"e", " ", "a">> >>, <<P_NAME, s_a>>, <<P_DRY, <<>> >> >>},
   envPrefix |-> EnvPrefix,
   version |-> {FALSE},
   requireSubcommand |-> {FALSE},
   showHelpIfNoArgs |-> {FALSE}]

s_foo    == <<"f","o","o">>
s_fooBar == <<"f","o","o","B","a","r">>
s_bar    == <<"b","a","r">>
s_baz    == <<"b","a","z">>
t_f      == <<"-","-","f">>
t_foo    == <<"-","-","f","o","o">>
t_Foo_b  == <<"-","-","F","o","o","-","b">>
t_ba     == <<"-","-","b","a">>
t_x      == <<"-","-","x">>
t_h      == <<"-","-","h">>
t_v      == <<"-","-","v">>

\* names of which one is the beginning of another (foo, fooBar) and names with
\* a common beginning of which none is the other's (bar, baz)
NamesScenario ==
  [cliArgs |-> << <<s_foo, booleanArgument("foo", "f")>>,
                  <<s_fooBar, stringArgument("fooBar", Undefined)>>,
                  <<s_bar, stringArrayArgument("bar", Undefined)>>,
                  <<s_baz, stringArgument("baz", Undefined)>> >>,
   subcommands |-> <<>>,
   tokens |-> {t_f, t_foo, t_Foo_b, t_ba, t_x, t_h, t_v, s_a},
   argsCap |-> MaxArgs - 1,
   envs |-> {NoEnv},
   envPrefix |-> NoPrefix,
   version |-> BOOLEAN,
   requireSubcommand |-> {FALSE},
   showHelpIfNoArgs |-> {FALSE}]

\* one string with no default and one boolean flag, with longer argvs
RepeatScenario ==
  [cliArgs |-> << <<s_name, stringArgument("name", Undefined)>>,
                  <<s_dry, booleanArgument("dry", "d")>> >>,
   subcommands |-> <<>>,
   tokens |-> {t_name, t_dry, Separator, s_a, s_b},
   argsCap |-> MaxArgs + 1,
   envs |-> {NoEnv},
   envPrefix |-> NoPrefix,
   version |-> {FALSE},
   requireSubcommand |-> {FALSE},
   showHelpIfNoArgs |-> {FALSE}]

c_f  == <<"-","f">>
c_fb == <<"-","f","b">>
c_bx == <<"-","b","x">>

\* two boolean flags with the characters f and b
FlagsScenario ==
  [cliArgs |-> << <<s_foo, booleanArgument("foo", "f")>>,
                  <<s_bar, booleanArgument("bar", "b")>> >>,
   subcommands |-> <<>>,
   tokens |-> {c_f, c_fb, c_bx, t_foo, Separator, s_a},
   argsCap |-> MaxArgs,
   envs |-> {NoEnv},
   envPrefix |-> NoPrefix,
   version |-> {FALSE},
   requireSubcommand |-> {FALSE},
   showHelpIfNoArgs |-> {FALSE}]

s_kindly == <<"k","i","n","d","l","y">>
t_k      == <<"-","-","k">>
c_kz     == <<"-","k","z">>

\* a required subcommand, an enum and a flag whose names share a beginning,
\* a version, showHelpIfNoArgs, and an environment variable that is not valid
ExitsScenario ==
  [cliArgs |-> << <<s_kind, enumArgument("kind", Undefined, <<s_a, s_e>>)>>,
                  <<s_kindly, booleanArgument("kindly", "k")>> >>,
   subcommands |-> << <<s_add, <<>> >> >>,
   tokens |-> {t_k, c_kz, s_a, t_h, t_v, VersionToken},
   argsCap |-> MaxArgs - 1,
   envs |-> {NoEnv, << <<P_KIND, s_x>> >>},
   envPrefix |-> EnvPrefix,
   version |-> {TRUE},
   requireSubcommand |-> {TRUE},
   showHelpIfNoArgs |-> BOOLEAN]

s_constructor == <<"c","o","n","s","t","r","u","c","t","o","r">>

\* one map with no default, with argvs long enough for two occurrences
MapScenario ==
  [cliArgs |-> << <<s_map, mapArgument("map", Undefined)>> >>,
   subcommands |-> <<>>,
   tokens |-> {t_map, s_a, s_b, s_constructor},
   argsCap |-> MaxArgs + 2,
   envs |-> {NoEnv},
   envPrefix |-> NoPrefix,
   version |-> {FALSE},
   requireSubcommand |-> {FALSE},
   showHelpIfNoArgs |-> {FALSE}]

\* a global string, a subcommand with an argument of its own and a
\* subcommand with none, with and without an environment variable for the
\* subcommand's argument
ScopeScenario ==
  [cliArgs |-> << <<s_name, stringArgument("name", Undefined)>> >>,
   subcommands |-> << <<s_add, << <<s_tag, stringArrayArgument("add.tag", Undefined)>> >> >>,
                      <<s_all, <<>> >> >>,
   tokens |-> {s_add, s_all, t_tag, t_name, s_a, Separator},
   argsCap |-> MaxArgs,
   envs |-> {NoEnv, << <<P_TAG, s_e>> >>},
   envPrefix |-> EnvPrefix,
   version |-> {FALSE},
   requireSubcommand |-> {FALSE},
   showHelpIfNoArgs |-> {FALSE}]

\* a string with a default, a string array and a flag, with the -- separator
\* and environment variables that are and are not valid
HooksScenario ==
  [cliArgs |-> << <<s_name, stringArgument("name", Str(s_d))>>,
                  <<s_tag, stringArrayArgument("tag", Undefined)>>,
                  <<s_dry, booleanArgument("dry", "d")>> >>,
   subcommands |-> <<>>,
   tokens |-> {t_name, t_tag, t_dry, s_a, Separator},
   argsCap |-> MaxArgs - 1,
   envs |-> {NoEnv,
             << <<P_TAG, s_e>> >>,
             << <<P_DRY, s_e>>, <<P_NAME, <<"a", " ", "e">> >>, <<P_TAG, s_e>> >>},
   envPrefix |-> EnvPrefix,
   version |-> {FALSE},
   requireSubcommand |-> {FALSE},
   showHelpIfNoArgs |-> {FALSE}]

s_Foo == <<"F","o","o">>
t_fo  == <<"-","-","f","o">>

\* two names that differ only in letter case and a name they begin
CaseScenario ==
  [cliArgs |-> << <<s_foo, stringArgument("foo", Undefined)>>,
                  <<s_Foo, stringArgument("Foo", Undefined)>>,
                  <<s_fooBar, stringArgument("fooBar", Undefined)>> >>,
   subcommands |-> <<>>,
   tokens |-> {t_foo, t_fo, t_Foo_b, t_x, s_a},
   argsCap |-> MaxArgs,
   envs |-> {NoEnv},
   envPrefix |-> NoPrefix,
   version |-> {FALSE},
   requireSubcommand |-> {FALSE},
   showHelpIfNoArgs |-> {FALSE}]

s_init       == <<"i","n","i","t">>
s_Init       == <<"I","n","i","t">>
s_ini        == <<"i","n","i">>
s_initialize == <<"i","n","i","t","i","a","l","i","z","e">>

\* two subcommands, the name of one being the beginning of the other's
PrefixCommandScenario ==
  [cliArgs |-> <<>>,
   subcommands |-> << <<s_init, << <<s_tag, stringArrayArgument("init.tag", Undefined)>> >> >>,
                      <<s_initialize, <<>> >> >>,
   tokens |-> {s_init, s_Init, s_ini, s_initialize, t_tag, s_a},
   argsCap |-> MaxArgs - 1,
   envs |-> {NoEnv},
   envPrefix |-> NoPrefix,
   version |-> {FALSE},
   requireSubcommand |-> BOOLEAN,
   showHelpIfNoArgs |-> {FALSE}]

\* a string and an enum, each declared with the default d
DefaultsScenario ==
  [cliArgs |-> << <<s_name, stringArgument("name", Str(s_d))>>,
                  <<s_kind, enumArgument("kind", Str(s_d), <<s_a, s_d>>)>> >>,
   subcommands |-> <<>>,
   tokens |-> {t_name, t_kind, s_a, s_d},
   argsCap |-> MaxArgs,
   envs |-> {NoEnv},
   envPrefix |-> NoPrefix,
   version |-> {FALSE},
   requireSubcommand |-> {FALSE},
   showHelpIfNoArgs |-> {FALSE}]

\* an enum array, a string array and a map, each declared with a non-empty
\* default
CollectionDefaultsScenario ==
  [cliArgs |-> << <<s_kind, enumArrayArgument("kind", Arr(<<Str(s_e)>>), <<s_a, s_e>>)>>,
                  <<s_tag, stringArrayArgument("tag", Arr(<<Str(s_d)>>))>>,
                  <<s_map, mapArgument("map", MapV(<< <<s_a, <<s_d>> >> >>))>> >>,
   subcommands |-> <<>>,
   tokens |-> {t_kind, t_tag, t_map, s_a, s_e},
   argsCap |-> MaxArgs,
   envs |-> {NoEnv},
   envPrefix |-> NoPrefix,
   version |-> {FALSE},
   requireSubcommand |-> {FALSE},
   showHelpIfNoArgs |-> {FALSE}]

c_F  == <<"-","F">>
c_b  == <<"-","b">>
c_bF == <<"-","b","F">>

\* a flag whose character is an upper-case letter and one whose character is
\* a lower-case letter
AliasScenario ==
  [cliArgs |-> << <<s_foo, booleanArgument("foo", "F")>>,
                  <<s_bar, booleanArgument("bar", "b")>> >>,
   subcommands |-> <<>>,
   tokens |-> {c_F, c_f, c_b, c_bF, t_foo, s_a},
   argsCap |-> MaxArgs,
   envs |-> {NoEnv},
   envPrefix |-> NoPrefix,
   version |-> {FALSE},
   requireSubcommand |-> {FALSE},
   showHelpIfNoArgs |-> {FALSE}]

\* the name of a global argument is also the name of an argument of the
\* subcommand add, with a different descriptor
SharedNameScenario ==
  [cliArgs |-> << <<s_name, stringArgument("name", Undefined)>> >>,
   subcommands |-> << <<s_add, << <<s_name, enumArgument("add.name", Str(s_d), <<s_a, s_d>>)>> >> >>,
                      <<s_all, <<>> >> >>,
   tokens |-> {s_add, s_all, t_name, s_a, s_x},
   argsCap |-> MaxArgs,
   envs |-> {NoEnv, << <<P_NAME, s_a>> >>, << <<P_NAME, s_x>> >>},
   envPrefix |-> EnvPrefix,
   version |-> {FALSE},
   requireSubcommand |-> {FALSE},
   showHelpIfNoArgs |-> {FALSE}]

c_d     == <<"-","d">>
s_false == <<"f","a","l","s","e">>
s_true  == <<"t","r","u","e">>
s_0     == <<"0">>

\* a flag and a string, with the variable of the flag set to values that
\* read as false, to the empty string and to a value with a space
FlagEnvScenario ==
  [cliArgs |-> << <<s_dry, booleanArgument("dry", "d")>>,
                  <<s_name, stringArgument("name", Undefined)>> >>,
   subcommands |-> <<>>,
   tokens |-> {t_dry, c_d, t_name, s_a, Separator},
   argsCap |-> MaxArgs - 1,
   envs |-> {NoEnv,
             << <<P_DRY, s_false>> >>, << <<P_DRY, s_0>> >>, << <<P_DRY, <<>> >> >>,
             << <<P_DRY, <<"a", " ", "e">> >> >>,
             << <<P_NAME, s_a>>, <<P_DRY, s_true>> >>},
   envPrefix |-> EnvPrefix,
   version |-> {FALSE},
   requireSubcommand |-> {FALSE},
   showHelpIfNoArgs |-> {FALSE}]

s_versions == <<"v","e","r","s","i","o","n","s">>

\* calls with and without a version configured, with no argument whose name
\* begins with version
VersionScenario ==
  [cliArgs |-> << <<s_name, stringArgument("name", Undefined)>> >>,
   subcommands |-> <<>>,
   tokens |-> {VersionToken, HelpToken, t_name, s_a, Separator},
   argsCap |-> MaxArgs,
   envs |-> {NoEnv},
   envPrefix |-> NoPrefix,
   version |-> BOOLEAN,
   requireSubcommand |-> {FALSE},
   showHelpIfNoArgs |-> {FALSE}]

\* the same calls with an argument named versions
VersionNameScenario ==
  [VersionScenario EXCEPT
     !.cliArgs = << <<s_versions, stringArrayArgument("versions", Undefined)>> >>]

s_help == <<"h","e","l","p">>
d_help == <<"P","r","i","n","t"," ","t","h","e"," ","h","e","l","p"," ","c","o","n","t","e","n","t","s"," ","a","n","d"," ","e","x","i","t">>
d_dry  == <<"d","r","y"," ","r","u","n">>
d_fooBar == <<"A"," ","f","o","o"," ","b","a","r"," ","o","p","t","i","o","n">>

\* the configurations whose help is printed: no argument, and a flag with a
\* camelCase string argument
HelpConfigurations ==
  {<<>>,
   << <<s_dry, HelpOption("d", d_dry)>>, <<s_fooBar, HelpOption(NoCharacter, d_fooBar)>> >>}

\* the widths of the terminal: narrower than the left column, as wide, wider
TerminalWidths == {12, 15, 16, 17, 18, 20, 24, 80}

\* the lines of the logger that are kept; the lines logged are counted
\* modulo MaxLines + 1
MaxLines == 6

Argvs(tokens, cap) == UNION {[1..n -> tokens] : n \in 0..cap}

\* every descriptor of a configuration, global or of a subcommand
RECURSIVE subcommandDescriptors(_)
subcommandDescriptors(subs) ==
  IF subs = <<>> THEN <<>> ELSE Head(subs)[2] \o subcommandDescriptors(Tail(subs))
descriptors(scn) == scn.cliArgs \o subcommandDescriptors(scn.subcommands)

InitialHeap(scn) ==
  LET ds == descriptors(scn)
  IN  [id \in {ds[i][2].id : i \in 1..Len(ds)} |->
         (CHOOSE d \in {ds[i][2] : i \in 1..Len(ds)} : d.id = id).defaultValue]

NothingLogged == [lines |-> <<>>, written |-> 0]

\* no call of printOptions is under way
HelpIdle ==
  /\ cliOptions = <<>> /\ terminalWidth = 80 /\ logger = NothingLogged
  /\ optionIndex = 0 /\ leftBar = 0 /\ stringToPrint = <<>>
  /\ helpPc = "idle"

InitWith(scenarios) ==
  \E scn \in scenarios :
    /\ subcommands = scn.subcommands
    /\ cliArgs = scn.cliArgs
    /\ \E argv \in Argvs(scn.tokens, scn.argsCap), e \in scn.envs, v \in scn.version,
          rs \in scn.requireSubcommand, sh \in scn.showHelpIfNoArgs, eo \in BOOLEAN :
         additionalOptions = [args |-> argv, env |-> e, envPrefix |-> scn.envPrefix,
                              requireSubcommand |-> rs, showHelpIfNoArgs |-> sh,
                              expectOperands |-> eo, version |-> v]
    /\ exitReturns \in BOOLEAN
    /\ Store0(InitialFrame(Call, InitialHeap(scn)))
    /\ commandChunks = <<>>
    /\ pc = "begin" /\ chunkIndex = 0
    /\ HelpIdle

\* ----------------------------------------------------------------- actions

After(f) == IF f.status = "running" THEN "chunks" ELSE "done"

\* lines 173-209
\* the frame a step ends with is stored; the loop goes on if it is running
StoreStep(f) == Store(f) /\ pc' = After(f)

\* line 209: the chunks, when the function got that far
GroupAfter(f) ==
  commandChunks' = IF f.status = "running" THEN groupArguments(additionalOptions.args) ELSE <<>>

BeginStep(f) == StoreStep(f) /\ GroupAfter(f)

Begin ==
  /\ pc = "begin"
  /\ BeginStep(begin(Frame))
  /\ chunkIndex' = 1
  /\ UNCHANGED <<inputs, helpVars>>

\* one iteration of the loop at line 212
ProcessChunk ==
  /\ pc = "chunks"
  /\ chunkIndex <= Len(commandChunks)
  /\ StoreStep(processChunk(Frame, commandChunks[chunkIndex]))
  /\ chunkIndex' = chunkIndex + 1
  /\ UNCHANGED <<inputs, commandChunks, helpVars>>

\* lines 391-410
Finish ==
  /\ pc = "chunks"
  /\ chunkIndex > Len(commandChunks)
  /\ Store(finish(Frame))
  /\ pc' = "done"
  /\ UNCHANGED <<inputs, commandChunks, chunkIndex, helpVars>>

Next == Begin \/ ProcessChunk \/ Finish

Init == InitWith({TypesScenario, SubcommandScenario})
Spec == Init /\ [][Next]_vars

InitEnv == InitWith({EnvScenario})
SpecEnv == InitEnv /\ [][Next]_vars

InitNames == InitWith({NamesScenario})
SpecNames == InitNames /\ [][Next]_vars

InitRepeat == InitWith({RepeatScenario})
SpecRepeat == InitRepeat /\ [][Next]_vars

InitFlags == InitWith({FlagsScenario})
SpecFlags == InitFlags /\ [][Next]_vars

InitMap == InitWith({MapScenario})
SpecMap == InitMap /\ [][Next]_vars

InitScope == InitWith({ScopeScenario})
SpecScope == InitScope /\ [][Next]_vars

InitHooks == InitWith({HooksScenario})
SpecHooks == InitHooks /\ [][Next]_vars

InitCase == InitWith({CaseScenario})
SpecCase == InitCase /\ [][Next]_vars

InitPrefixCommand == InitWith({PrefixCommandScenario})
SpecPrefixCommand == InitPrefixCommand /\ [][Next]_vars

InitDefaults == InitWith({DefaultsScenario})
SpecDefaults == InitDefaults /\ [][Next]_vars

InitExits == InitWith({TypesScenario, SubcommandScenario, ExitsScenario})
SpecExits == InitExits /\ [][Next]_vars

InitCollectionDefaults == InitWith({CollectionDefaultsScenario})
SpecCollectionDefaults == InitCollectionDefaults /\ [][Next]_vars

InitAlias == InitWith({AliasScenario})
SpecAlias == InitAlias /\ [][Next]_vars

InitSharedName == InitWith({SharedNameScenario})
SpecSharedName == InitSharedName /\ [][Next]_vars

InitFlagEnv == InitWith({FlagEnvScenario})
SpecFlagEnv == InitFlagEnv /\ [][Next]_vars

InitVersion == InitWith({VersionScenario, VersionNameScenario})
SpecVersion == InitVersion /\ [][Next]_vars

\* ------------------------------------------------- the steps of printOptions

parseVars == <<inputs, defaultValue, locals, exitCalls, hookLog, console, status, result,
               pc, chunkIndex>>

\* no call of parseCliArguments is under way
ParseIdle ==
  /\ subcommands = <<>> /\ cliArgs = <<>> /\ exitReturns = FALSE
  /\ additionalOptions = [args |-> <<>>, env |-> NoEnv, envPrefix |-> NoPrefix,
                          requireSubcommand |-> FALSE, showHelpIfNoArgs |-> FALSE,
                          expectOperands |-> TRUE, version |-> FALSE]
  /\ Store0(InitialFrame(Call, <<>>))
  /\ commandChunks = <<>>
  /\ pc = "idle" /\ chunkIndex = 0

\* lines 639-647: the global options with the help option added
globalOptions(options) ==
  Append(options, <<s_help, HelpOption(NoCharacter, d_help)>>)

\* logger.log(line)
Log(line) ==
  logger' = [lines |-> IF Len(logger.lines) < MaxLines THEN Append(logger.lines, line)
                       ELSE Append(Tail(logger.lines), line),
             written |-> (logger.written + 1) % (MaxLines + 1)]

\* printOptions is called by printHelpContents (line 662)
InitHelp ==
  /\ ParseIdle
  /\ \E options \in HelpConfigurations : cliOptions = globalOptions(options)
  /\ terminalWidth \in TerminalWidths
  /\ logger = NothingLogged /\ optionIndex = 1 /\ leftBar = 0 /\ stringToPrint = <<>>
  /\ helpPc = "options"

\* lines 677-689: the first line of an option
PrintOption ==
  /\ helpPc = "options" /\ optionIndex <= Len(cliOptions)
  /\ leftBar' = Len(leftColumn(cliOptions, cliOptions[optionIndex][1], cliOptions[optionIndex][2]))
  /\ Log(slice(optionString(cliOptions, cliOptions[optionIndex][1], cliOptions[optionIndex][2]),
               0, terminalWidth))
  /\ stringToPrint' =
       sliceTail(optionString(cliOptions, cliOptions[optionIndex][1], cliOptions[optionIndex][2]),
                 terminalWidth)
  /\ helpPc' = "wrap"
  /\ UNCHANGED <<cliOptions, terminalWidth, optionIndex, parseVars>>

\* lines 691-694: one iteration of the while loop
WrapLine ==
  /\ helpPc = "wrap" /\ Len(stringToPrint) > 0
  /\ Log(wrappedLine(leftBar, stringToPrint, terminalWidth - leftBar))
  /\ stringToPrint' = sliceTail(stringToPrint, terminalWidth - leftBar)
  /\ UNCHANGED <<cliOptions, terminalWidth, optionIndex, leftBar, helpPc, parseVars>>

\* the while loop has ended: the for loop goes to the next option
NextOption ==
  /\ helpPc = "wrap" /\ Len(stringToPrint) = 0
  /\ optionIndex' = optionIndex + 1
  /\ helpPc' = "options"
  /\ UNCHANGED <<cliOptions, terminalWidth, logger, leftBar, stringToPrint, parseVars>>

\* the for loop has ended: printOptions returns
ReturnOptions ==
  /\ helpPc = "options" /\ optionIndex > Len(cliOptions)
  /\ helpPc' = "returned"
  /\ UNCHANGED <<cliOptions, terminalWidth, logger, optionIndex, leftBar, stringToPrint, parseVars>>

NextHelp == PrintOption \/ WrapLine \/ NextOption \/ ReturnOptions

\* the code is sequential: a step that can be taken is taken
SpecHelp == InitHelp /\ [][NextHelp]_vars /\ WF_vars(NextHelp)

\* ------------------------------------------------------------------ claims

args == additionalOptions.args
Successful == pc = "done" /\ status = "returned" /\ result.populated /\ exitCalls = <<>>

\* the tokens of a sequence of chunks: each head followed by its tail
RECURSIVE chunkTokens(_)
chunkTokens(chunks) ==
  IF chunks = <<>> THEN <<>>
  ELSE <<Head(chunks).first>> \o Head(chunks).rest \o chunkTokens(Tail(chunks))

\* C5: for a non-empty argv the chunks of groupArguments are in argv order
\* (their heads and tails concatenated give argv back), a chunk headed by --
\* is the last one, exactly the first chunk is tagged isFirst and exactly the
\* last one isLast.
C5_ChunksInArgvOrder ==
  (pc = "chunks" /\ Len(args) > 0) =>
    /\ chunkTokens(commandChunks) = args
    /\ \A i \in 1..Len(commandChunks) :
         /\ commandChunks[i].first = Separator => i = Len(commandChunks)
         /\ commandChunks[i].isFirst <=> i = 1
         /\ commandChunks[i].isLast <=> i = Len(commandChunks)

\* C3: with subcommands configured and a first token that does not start
\* with a dash, every successful parse returns the subcommand that token
\* resolves to.
C3_FirstTokenSelectsSubcommand ==
  (/\ Successful /\ Len(subcommands) > 0 /\ Len(args) > 0
   /\ ~startsWith(args[1], <<Dash>>)
   /\ Len(matchingCommands(Frame, args[1])) = 1) =>
    result.subcommand = Str(matchingCommands(Frame, args[1])[1])

\* the heap when the call is made: every descriptor holds its declared default
DeclaredHeap == InitialHeap([cliArgs |-> cliArgs, subcommands |-> subcommands])

HasSeparator == \E i \in 1..Len(args) : args[i] = Separator
FirstSeparator == CHOOSE i \in 1..Len(args) :
                    args[i] = Separator /\ \A j \in 1..(i - 1) : args[j] # Separator
AfterSeparator == sliceFrom(args, FirstSeparator)

\* a is b with some elements left out
RECURSIVE IsSubsequence(_, _)
IsSubsequence(a, b) ==
  IF a = <<>> THEN TRUE
  ELSE IF b = <<>> THEN FALSE
  ELSE IF Head(a) = Head(b) THEN IsSubsequence(Tail(a), Tail(b))
  ELSE IsSubsequence(a, Tail(b))

\* the same call with argv cut after its first --
CutAfterSeparator ==
  parseCliArguments([Call EXCEPT !.options.args = SubSeq(args, 1, FirstSeparator)], DeclaredHeap)

\* C2: on a successful parse with operands permitted, the tokens after the
\* first -- are in result.operands, verbatim and in argv order, and are
\* nothing else: the arguments, the subcommand and the hook calls are those
\* of the same argv cut after the --, and the operands are those of the cut
\* argv, which are tokens from before the --, with the tokens after the --
\* inserted.
C2_AfterSeparatorOnlyOperands ==
  (Successful /\ additionalOptions.expectOperands /\ HasSeparator) =>
    LET cut == CutAfterSeparator
        ops == cut.result.operands
    IN  /\ cut.exitCalls = <<>>
        /\ IsSubsequence(ops, SubSeq(args, 1, FirstSeparator - 1))
        /\ \E k \in 0..Len(ops) :
             result.operands = SubSeq(ops, 1, k) \o AfterSeparator \o SubSeq(ops, k + 1, Len(ops))
        /\ result.args = cut.result.args
        /\ result.subcommand = cut.result.subcommand
        /\ hookLog = cut.hookLog

\* a successful parse in which an argument was matched before the -- and a
\* token that looks like an argument follows it
C2_Witness ==
  /\ Successful /\ additionalOptions.expectOperands /\ HasSeparator
  /\ hookLog # <<>>
  /\ \E i \in 1..Len(AfterSeparator) :
       startsWith(AfterSeparator[i], Separator) /\ AfterSeparator[i] # Separator

\* the same call made with an empty environment
WithoutEnvironment ==
  parseCliArguments([Call EXCEPT !.options.env = NoEnv], DeclaredHeap)

\* the entries of env that name the argument key: PREFIX_NAME
EnvironmentValues(key) ==
  SelectSeq(additionalOptions.env,
            LAMBDA e : e[1] = additionalOptions.envPrefix \o <<"_">> \o camelToCapitalSnakeCase(key))

\* the value the environment gives an argument by itself: true for a flag,
\* the validated pieces of the variable for the other types
EnvironmentDerived(d, value) ==
  IF HasPresent(d) THEN Bool(TRUE)
  ELSE validateValues(d, Undefined, splitOnSpace(value)).value

\* C1: on a successful parse, an argument matched on the command line has the
\* value the same argv gives with an empty environment; an argument not
\* matched on the command line whose PREFIX_NAME variable is set has the
\* value derived from that variable; an argument matched by neither has its
\* declared default.
C1_CliOverEnvironmentOverDefault ==
  Successful =>
    \A i \in 1..Len(cliArgs) :
      LET key == cliArgs[i][1]
          d == cliArgs[i][2]
          fromEnv == EnvironmentValues(key)
          final == Get(result.args, key)
      IN  IF Has(parsedArgs, key)
          THEN /\ WithoutEnvironment.exitCalls = <<>>
               /\ final = Get(WithoutEnvironment.result.args, key)
          ELSE IF fromEnv # <<>>
          THEN final = EnvironmentDerived(d, fromEnv[Len(fromEnv)][2])
          ELSE final = Deref(DeclaredHeap, ReadDefaultValue(DeclaredHeap, d))

\* the configured names that have the key of a --name token as a prefix, and
\* those equal to it, lower-cased
NamesWithPrefix(token) ==
  {n \in {Keys(combinedOptions)[i] : i \in 1..Len(combinedOptions)} :
     startsWith(toLowerCase(n), toLowerCase(removeAll(sliceFrom(token, 2), Dash)))}
NamesEqualTo(token) ==
  {n \in NamesWithPrefix(token) :
     toLowerCase(n) = toLowerCase(removeAll(sliceFrom(token, 2), Dash))}

\* what one iteration of the loop added to the hook calls and to the exits
NewHooks == SubSeq(hookLog', Len(hookLog) + 1, Len(hookLog'))
NewExits == SubSeq(exitCalls', Len(exitCalls) + 1, Len(exitCalls'))

\* the iteration went on with the argument n: present or validateValues of n
\* was called, of no other argument, and resolution did not exit
ResolvedTo(n) ==
  /\ NewHooks # <<>>
  /\ \A i \in 1..Len(NewHooks) : NewHooks[i].key = n /\ NewHooks[i].phase = "cli"
  /\ \A i \in 1..Len(NewExits) :
       NewExits[i].message \notin {"Ambiguous argument", "Unknown argument"}

\* the iteration called no hook and exited with code 2 and the message
ResolutionExit(message, token) ==
  /\ NewHooks = <<>> /\ parsedArgs' = parsedArgs
  /\ NewExits # <<>>
  /\ NewExits[1] = [code |-> 2, message |-> message, detail |-> <<token>>]
  /\ \A i \in 1..Len(NewExits) : NewExits[i].code = 2
  /\ status' # "running"

\* an iteration of the loop on a chunk headed by a --name token that is not
\* taken by the --help and --version test at the top of the loop
ResolvesName ==
  /\ pc = "chunks" /\ chunkIndex <= Len(commandChunks) /\ chunkIndex' = chunkIndex + 1
  /\ LET first == commandChunks[chunkIndex].first
     IN  /\ startsWith(first, Separator) /\ first # Separator
         /\ first # HelpToken
         /\ ~(first = VersionToken /\ additionalOptions.version)

\* C4: the iteration on a --name token goes on with the single name that has
\* the token as a prefix; with the name equal to the token when several have
\* it as a prefix; exits with code 2 as ambiguous when several have it as a
\* prefix and none equals it; exits with code 2 as unknown when none has it
\* as a prefix and the token is not a prefix of --help or --version.
C4_NameResolution ==
  [][ResolvesName =>
       LET first == commandChunks[chunkIndex].first
           prefixed == NamesWithPrefix(first)
           equal == NamesEqualTo(first)
       IN  /\ Cardinality(prefixed) = 1 => \E n \in prefixed : ResolvedTo(n)
           /\ (Cardinality(prefixed) > 1 /\ equal # {}) => \E n \in equal : ResolvedTo(n)
           /\ (Cardinality(prefixed) > 1 /\ equal = {}) =>
                ResolutionExit("Ambiguous argument", first)
           /\ (/\ prefixed = {}
               /\ ~startsWith(HelpToken, first)
               /\ ~startsWith(VersionToken, first)) =>
                ResolutionExit("Unknown argument", first)]_vars

\* a parse that has gone on with a name equal to a token that is also the
\* beginning of another name, after a token with a single candidate
C4_Witness ==
  /\ chunkIndex > 2 /\ chunkIndex - 1 <= Len(commandChunks)
  /\ Cardinality(NamesWithPrefix(commandChunks[1].first)) = 1
  /\ startsWith(commandChunks[1].first, Separator)
  /\ LET first == commandChunks[chunkIndex - 1].first
     IN  /\ startsWith(first, Separator)
         /\ Cardinality(NamesWithPrefix(first)) > 1
         /\ \E n \in NamesEqualTo(first) :
              hookLog # <<>> /\ hookLog[Len(hookLog)].key = n

\* the same call made with operands permitted
WithOperandsExpected ==
  parseCliArguments([Call EXCEPT !.options.expectOperands = TRUE], DeclaredHeap)

\* argv has a token that becomes an operand when operands are permitted
WouldHaveOperands ==
  LET p == WithOperandsExpected
  IN  /\ p.status = "returned" /\ p.result.populated /\ p.exitCalls = <<>>
      /\ p.result.operands # <<>>

OperandsForbidden ==
  pc = "done" /\ ~additionalOptions.expectOperands /\ (HasSeparator \/ WouldHaveOperands)

\* C6 as stated: with expectOperands false, a parse of an argv that has a
\* token that would become an operand, or the -- separator, does not return
\* successfully and exits with code 2.
C6_OperandsForbiddenExitsWithCode2 ==
  OperandsForbidden =>
    /\ ~Successful
    /\ exitCalls # <<>> /\ exitCalls[1].code = 2

\* C6 amended: such a parse does not return successfully; it exits with code
\* 2, or with code 0 after printing help or the version when a --help or
\* --version token is handled before the operands are; every successful
\* result with expectOperands false has an empty operand list.
C6_OperandsForbiddenExits ==
  /\ OperandsForbidden =>
       /\ ~Successful
       /\ exitCalls # <<>>
       /\ \/ exitCalls[1].code = 2
          \/ exitCalls[1].code = 0 /\ Len(exitCalls) = 1 /\ console # <<>>
  /\ (Successful /\ ~additionalOptions.expectOperands) => result.operands = <<>>

\* a parse with expectOperands false that reached the check after the loop
\* with operands collected and exited there
C6_Witness ==
  /\ OperandsForbidden /\ ~HasSeparator
  /\ Len(exitCalls) = 1
  /\ exitCalls[1].message = "Operands are not expected but received"
  /\ exitCalls[1].detail = operands /\ operands # <<>>

IsValue(token) == ~startsWith(token, <<Dash>>)

\* argv begins with --name X --name Y: two occurrences with one value each
NameGivenTwice ==
  /\ Len(args) >= 4
  /\ args[1] = t_name /\ IsValue(args[2])
  /\ args[3] = t_name /\ IsValue(args[4])
  /\ Len(args) > 4 => ~IsValue(args[5])

SetMultipleTimes ==
  [code |-> 2, message |-> "expects a single values but was set multiple times",
   detail |-> <<s_name>>]

\* C7: for the string argument name, declared without a default, argv
\* --name X yields args.name = X, and a parse of an argv that begins with
\* --name X --name Y exits with code 2 with the validation error of name that
\* says it was set multiple times, for equal and for different X and Y.
C7_SingleValueSetTwice ==
  pc = "done" =>
    /\ (Len(args) = 2 /\ args[1] = t_name /\ IsValue(args[2])) =>
         Successful /\ Get(result.args, s_name) = Str(args[2])
    /\ NameGivenTwice =>
         ~Successful /\ exitCalls # <<>> /\ exitCalls[1] = SetMultipleTimes

\* the validated values of the command-line occurrences of an argument, in
\* the order of the occurrences
RECURSIVE CommandLineValues(_, _)
CommandLineValues(d, log) ==
  IF log = <<>> THEN <<>>
  ELSE (IF Head(log).hook = "validate" /\ Head(log).phase = "cli" /\ Head(log).ok
           /\ Get(combinedOptions, Head(log).key) = d
        THEN validateValues(d, Undefined, Head(log).values).value.v
        ELSE <<>>) \o CommandLineValues(d, Tail(log))

IsArrayTyped(d) == d.kind \in {"stringArray", "enumArray"}

\* C8: on a successful parse, an array-typed argument with no default or an
\* empty default that occurs on the command line ends with the concatenation,
\* in argv order, of the validated values of its command-line occurrences.
C8_ArrayAccumulatesCommandLineValues ==
  Successful =>
    \A i \in 1..Len(combinedOptions) :
      LET key == combinedOptions[i][1]
          d == combinedOptions[i][2]
      IN  (/\ IsArrayTyped(d)
           /\ d.defaultValue \in {Undefined, Arr(<<>>)}
           /\ CommandLineValues(d, hookLog) # <<>>) =>
            Get(result.args, key) = Arr(CommandLineValues(d, hookLog))

\* the index of the last token of the chunk that argv begins with: the tokens
\* up to the next token that starts with a dash
RECURSIVE ChunkEnd(_)
ChunkEnd(i) == IF i < Len(args) /\ IsValue(args[i + 1]) THEN ChunkEnd(i + 1) ELSE i
FirstChunkValues == SubSeq(args, 2, ChunkEnd(1))
FirstChunkIsFinal == ChunkEnd(1) = Len(args)

\* C9: when argv begins with the flag --dry followed by one or more values,
\* the parse exits with code 2 if another token follows the values or
\* operands are not permitted; otherwise it succeeds
\* with dry true and the values as the operands, in order.
C9_FlagWithValues ==
  (pc = "done" /\ Len(args) >= 2 /\ args[1] = t_dry /\ FirstChunkValues # <<>>) =>
    IF ~FirstChunkIsFinal \/ ~additionalOptions.expectOperands
    THEN ~Successful /\ exitCalls # <<>> /\ exitCalls[1].code = 2
    ELSE /\ Successful
         /\ Get(result.args, s_dry) = Bool(TRUE)
         /\ result.operands = FirstChunkValues

\* C10: when argv begins with the string argument --name followed by two or
\* more values, validateValues gets the first value only and the other values
\* are the operands if the values end argv and operands are permitted;
\* otherwise the parse exits with code 2, and validateValues, when called,
\* gets all the values.
C10_SingleValueWithExtraValues ==
  (pc = "done" /\ Len(args) >= 3 /\ args[1] = t_name /\ Len(FirstChunkValues) >= 2) =>
    IF FirstChunkIsFinal /\ additionalOptions.expectOperands
    THEN /\ Successful
         /\ hookLog[1] = Hook("validate", "cli", s_name, <<args[2]>>, TRUE)
         /\ Get(result.args, s_name) = Str(args[2])
         /\ result.operands = Tail(FirstChunkValues)
    ELSE /\ ~Successful /\ exitCalls # <<>> /\ exitCalls[1].code = 2
         /\ hookLog # <<>> => hookLog[1] = Hook("validate", "cli", s_name, FirstChunkValues, FALSE)

\* the characters configured for the arguments of the call
Characters ==
  {LowerChar(cliArgs[i][2].character) :
     i \in {j \in 1..Len(cliArgs) : cliArgs[j][2].character # NoCharacter}}
\* the arguments that the characters of a cluster are configured for
AliasedBy(chars) ==
  {cliArgs[i][1] : i \in {j \in 1..Len(cliArgs) :
                             \E k \in 1..Len(chars) : cliArgs[j][2].character = chars[k]}}
UnknownCharacters(chars) == SelectSeq(chars, LAMBDA ch : ch \notin Characters)

IsCluster(token) == startsWith(token, <<Dash>>) /\ ~startsWith(token, Separator)

\* C11: when argv begins with a single-dash cluster: values after the cluster
\* that are followed by another token, or given when operands are not
\* permitted, end the parse with exit code 2; otherwise a character of the
\* cluster that is no configured character ends it with exit code 2 (with the
\* unknown-flag error of that character when argv has no --); otherwise, on a successful parse,
\* every argument a character of the cluster is configured for is true, and
\* the values, when the cluster with its values is all of argv, are the
\* operands.
C11_ShortFlagCluster ==
  (pc = "done" /\ Len(args) >= 1 /\ IsCluster(args[1])) =>
    LET chars == sliceFrom(args[1], 1)
        unknown == UnknownCharacters(chars)
    IN  IF FirstChunkValues # <<>> /\ (~FirstChunkIsFinal \/ ~additionalOptions.expectOperands)
        THEN ~Successful /\ exitCalls # <<>> /\ exitCalls[1].code = 2
        ELSE IF unknown # <<>>
        THEN /\ ~Successful /\ exitCalls # <<>> /\ exitCalls[1].code = 2
             /\ ~HasSeparator =>
                  exitCalls[1] = [code |-> 2, message |-> "Unknown flag", detail |-> <<unknown[1]>>]
        ELSE /\ Successful =>
                  \A n \in AliasedBy(chars) : Get(result.args, n) = Bool(TRUE)
             /\ FirstChunkIsFinal => Successful /\ result.operands = FirstChunkValues

HelpExit == [code |-> 0, message |-> "", detail |-> <<>>]

\* C12, for the argvs that begin with --help (no token precedes it, so no
\* earlier token can end the parse first): the parse renders help and exits
\* with code 0; it does not exit with code 2 and does not return a parse
\* result, whatever tokens follow.
C12_HelpShortCircuits ==
  (pc = "done" /\ Len(args) >= 1 /\ args[1] = HelpToken) =>
    /\ console = <<"help">>
    /\ exitCalls = <<HelpExit>>
    /\ ~result.populated

UnknownNameErrors == {"Unknown command", "Unknown argument", "Unknown flag"}
AmbiguousNameErrors == {"Ambiguous command", "Ambiguous argument"}
ValidationErrors ==
  {"expects a single values but was set multiple times", "a value is required",
   "expects a single value but received", "expects a single value but was set multiple times",
   "is not one of the allowed values", "at least one value is required",
   "At least one value is required", "a key is required and at least one value is required",
   "requires at least one value", "is set multiple times",
   "does not accept values but received"}
EnvironmentErrors == {"Invalid value for environment"}
StructuralErrors ==
  {"Invalid: all arguments must specified using a --argument",
   "Arguments must be specified using a --argument",
   "Boolean flag(s) should not have values but received",
   "Operands are not expected but '--' separator was used",
   "Operands are not expected but received",
   "A subcommand is required"}

\* the step is one that asks for help or the version: no argv with
\* showHelpIfNoArgs, or a chunk headed by a token that --help begins with, or
\* that --version begins with when a version is configured
AsksHelpOrVersion ==
  \/ pc = "begin" /\ args = <<>> /\ additionalOptions.showHelpIfNoArgs
  \/ /\ pc = "chunks" /\ chunkIndex <= Len(commandChunks)
     /\ \/ startsWith(HelpToken, commandChunks[chunkIndex].first)
        \/ /\ startsWith(VersionToken, commandChunks[chunkIndex].first)
           /\ additionalOptions.version

RECURSIVE OccurrencesFrom(_)
OccurrencesFrom(i) ==
  IF i > Len(args) THEN <<>>
  ELSE <<SubSeq(args, i, ChunkEnd(i))>> \o OccurrencesFrom(ChunkEnd(i) + 1)
Occurrences == OccurrencesFrom(1)

\* argv is made of occurrences of --map only, each with a key and one or
\* more values
MapOccurrencesOnly ==
  /\ Len(args) > 0 /\ ~HasSeparator
  /\ \A i \in 1..Len(Occurrences) : Occurrences[i][1] = t_map /\ Len(Occurrences[i]) >= 3

\* the occurrences whose key is the key of an earlier occurrence
RepeatedKeys ==
  {i \in 1..Len(Occurrences) : \E j \in 1..(i - 1) : Occurrences[j][2] = Occurrences[i][2]}

\* C14: for the map argument map, declared without a default, and an argv
\* made of occurrences --map key value...: if the key of some occurrence is
\* the key of an earlier one, the parse exits with code 2 at the first such
\* occurrence, with the validation error that the key is set multiple times;
\* otherwise the parse succeeds and args.map has, for every occurrence, its
\* first token as a key with its other tokens as the value list, and nothing
\* else.
C14_MapOccurrences ==
  (pc = "done" /\ MapOccurrencesOnly) =>
    IF RepeatedKeys # {}
    THEN LET i == CHOOSE k \in RepeatedKeys : \A l \in RepeatedKeys : k <= l
         IN  /\ ~Successful /\ exitCalls # <<>>
             /\ exitCalls[1] = [code |-> 2, message |-> "is set multiple times",
                                detail |-> <<s_map>>]
             /\ hookLog[Len(hookLog)] =
                  Hook("validate", "cli", s_map, Tail(Occurrences[i]), FALSE)
    ELSE /\ Successful
         /\ Get(result.args, s_map) =
              MapV([i \in 1..Len(Occurrences) |->
                      <<Occurrences[i][2], SubSeq(Occurrences[i], 3, Len(Occurrences[i]))>>])

NameSet(options) == {options[i][1] : i \in 1..Len(options)}

\* the names declared globally, and under the subcommand sub (none for
\* Undefined)
GlobalNames == NameSet(cliArgs)
SubcommandNames(sub) ==
  IF sub = Undefined THEN {} ELSE NameSet(Get(subcommands, sub.v))
NamesInScope(sub) == GlobalNames \cup SubcommandNames(sub)

\* a --name token that, with sub selected, names no argument in scope but
\* names an argument declared under another subcommand
NamesOutOfScope(token, sub) ==
  /\ startsWith(token, Separator) /\ token # Separator
  /\ ~startsWith(HelpToken, token) /\ ~startsWith(VersionToken, token)
  /\ \A n \in NamesInScope(sub) : ~startsWith(toLowerCase(n), argumentKey(token))
  /\ \E i \in 1..Len(subcommands) :
       \E n \in NameSet(subcommands[i][2]) : startsWith(toLowerCase(n), argumentKey(token))

\* the subcommand a first token selects: Undefined for a token that starts
\* with a dash
SelectedBy(token) ==
  IF ~startsWith(token, <<Dash>>) /\ Len(matchingCommands(Frame, token)) = 1
  THEN Str(matchingCommands(Frame, token)[1])
  ELSE Undefined

\* C15: no hook is called for an argument that is declared neither globally
\* nor under the selected subcommand, and no such name is in the args of a
\* successful result; when argv begins with a --name token for an argument
\* declared only under a subcommand, or with a subcommand followed by a
\* --name token for an argument declared only under another subcommand, the
\* parse exits with code 2, the token being an unknown argument.
C15_SubcommandScope ==
  /\ \A i \in 1..Len(hookLog) : hookLog[i].key \in NamesInScope(subcommand)
  /\ Successful => NameSet(result.args) \subseteq NamesInScope(result.subcommand)
  /\ (pc = "done" /\ Len(args) >= 1 /\ NamesOutOfScope(args[1], Undefined)) =>
       ~Successful /\ exitCalls # <<>>
       /\ exitCalls[1] = [code |-> 2, message |-> "Unknown argument", detail |-> <<args[1]>>]
  /\ (/\ pc = "done" /\ Len(args) >= 2
      /\ SelectedBy(args[1]) # Undefined
      /\ NamesOutOfScope(args[2], SelectedBy(args[1]))) =>
       ~Successful /\ exitCalls # <<>>
       /\ exitCalls[1] = [code |-> 2, message |-> "Unknown argument", detail |-> <<args[2]>>]

\* the same call made again, with the descriptors as the first call left them
SecondParse == parseCliArguments(Call, defaultValue)

\* C16: a parse leaves the defaultValue of every descriptor as it was
\* declared, and the same call made again with the same descriptors returns
\* what the first call returned and exits as the first call did.
C16_InvocationsIndependent ==
  /\ defaultValue = DeclaredHeap
  /\ pc = "done" =>
       /\ SecondParse.result = result
       /\ SecondParse.exitCalls = exitCalls

IsPrefix(p, q) == Len(p) <= Len(q) /\ SubSeq(q, 1, Len(p)) = p

\* the call of validateValues e is for the occurrence occ of argv: the head
\* of occ is a --name token that the argument's name begins with and the
\* values of the call are values of occ, from the first one on
ValidatesOccurrence(e, occ) ==
  /\ startsWith(occ[1], Separator)
  /\ startsWith(toLowerCase(e.key), argumentKey(occ[1]))
  /\ IsPrefix(e.values, Tail(occ))

\* the calls are for occurrences of argv, in the order of argv
RECURSIVE InOccurrenceOrder(_, _)
InOccurrenceOrder(calls, occs) ==
  IF calls = <<>> THEN TRUE
  ELSE IF occs = <<>> THEN FALSE
  ELSE IF ValidatesOccurrence(Head(calls), Head(occs))
  THEN InOccurrenceOrder(Tail(calls), Tail(occs))
  ELSE InOccurrenceOrder(calls, Tail(occs))

CliValidations == SelectSeq(hookLog, LAMBDA e : e.hook = "validate" /\ e.phase = "cli")

\* C17: in the sequence of hook calls, a call of reduce comes directly after
\* a successful call of validate for the same occurrence, every successful
\* validate is directly followed by its reduce, so that reduce is called
\* exactly once per accepted occurrence and never after a failed validate; a
\* validate of an argument that defines present comes directly after the call
\* of present for it; every call made for the environment comes before
\* every call made for a chunk; and the calls of validate made for chunks are
\* for occurrences of argv, in argv order.
C17_HookOrder ==
  /\ \A i \in 1..Len(hookLog) :
       /\ hookLog[i].hook = "reduce" =>
            /\ i > 1
            /\ hookLog[i - 1] = [hookLog[i] EXCEPT !.hook = "validate"]
            /\ hookLog[i - 1].ok
       /\ (hookLog[i].hook = "validate" /\ hookLog[i].ok) =>
            /\ i < Len(hookLog)
            /\ hookLog[i + 1] = [hookLog[i] EXCEPT !.hook = "reduce"]
       /\ (hookLog[i].hook = "validate" /\ HasPresent(Get(combinedOptions, hookLog[i].key))) =>
            /\ i > 1
            /\ hookLog[i - 1] = Hook("present", hookLog[i].phase, hookLog[i].key, <<>>, TRUE)
       /\ hookLog[i].phase = "env" =>
            \A j \in 1..(i - 1) : hookLog[j].phase = "env"
  /\ InOccurrenceOrder(CliValidations, Occurrences)

\* a call in which the environment was validated and reduced, then a flag
\* went through present, validate and reduce, and then a validate of a later
\* chunk failed
C17_Witness ==
  /\ Len(hookLog) = 6
  /\ hookLog[1].phase = "env" /\ hookLog[1].hook = "validate"
  /\ hookLog[2].phase = "env" /\ hookLog[2].hook = "reduce"
  /\ hookLog[3].phase = "cli" /\ hookLog[3].hook = "present"
  /\ hookLog[4].hook = "validate" /\ hookLog[5].hook = "reduce"
  /\ hookLog[6].hook = "validate" /\ ~hookLog[6].ok

\* the declaration orders of a configuration
DeclarationOrders(options) ==
  {q \in [1..Len(options) -> {options[i] : i \in 1..Len(options)}] :
     \A i \in 1..Len(options) : \E j \in 1..Len(options) : q[j] = options[i]}

\* what the resolution of the head of chunk c comes to with the arguments
\* declared in the order of options: the name gone on with (<<>> for none)
\* and the exits
ResolutionOutcome(options, c) ==
  LET r == resolveArgument([Frame EXCEPT !.combinedOptions = options], c)
  IN  [name |-> r.name,
       exits |-> SubSeq(r.f.exitCalls, Len(exitCalls) + 1, Len(r.f.exitCalls))]

\* C18: when the loop is at a chunk headed by a --name token, the resolution
\* of the token (the name gone on with, or the exit as ambiguous or unknown)
\* is the same for every declaration order of the arguments.
C18_ResolutionOrderIndependent ==
  (/\ pc = "chunks" /\ chunkIndex <= Len(commandChunks)
   /\ startsWith(commandChunks[chunkIndex].first, Separator)
   /\ commandChunks[chunkIndex].first # Separator) =>
    \A q \in DeclarationOrders(combinedOptions) :
      ResolutionOutcome(q, commandChunks[chunkIndex]) =
        ResolutionOutcome(combinedOptions, commandChunks[chunkIndex])

\* the configured subcommands whose name equals the token, letter case aside
CommandsEqualTo(token) ==
  {n \in NameSet(subcommands) : toLowerCase(n) = toLowerCase(token)}

\* C19: when argv begins with a token that equals a configured subcommand
\* name, letter case aside, the parse does not exit for an ambiguous or
\* unknown command, and a parse of that token alone succeeds with that
\* subcommand, also when the name is the beginning of another subcommand's
\* name.
C19_SubcommandExactMatch ==
  (/\ pc = "done" /\ Len(args) >= 1 /\ ~startsWith(args[1], <<Dash>>)
   /\ Cardinality(CommandsEqualTo(args[1])) = 1) =>
    /\ \A i \in 1..Len(exitCalls) :
         exitCalls[i].message \notin {"Ambiguous command", "Unknown command"}
    /\ Successful => \E n \in CommandsEqualTo(args[1]) : result.subcommand = Str(n)
    /\ Len(args) = 1 => Successful

\* argv begins with two occurrences of the token, each with one value
GivenTwice(token) ==
  /\ Len(args) >= 4
  /\ args[1] = token /\ IsValue(args[2])
  /\ args[3] = token /\ IsValue(args[4])
  /\ Len(args) > 4 => ~IsValue(args[5])

\* C20: for the string argument name and the enum argument kind, each
\* declared with a default, a parse of an argv that begins with two
\* occurrences of the argument, each with one value, exits with code 2 with
\* the validation error of that argument that says it was set multiple
\* times, whatever the first value is, the default included.
C20_DefaultedSingleValueSetTwice ==
  pc = "done" =>
    /\ GivenTwice(t_name) =>
         /\ ~Successful /\ exitCalls # <<>>
         /\ exitCalls[1] = [code |-> 2, detail |-> <<s_name>>,
                            message |-> "expects a single values but was set multiple times"]
    /\ GivenTwice(t_kind) =>
         /\ ~Successful /\ exitCalls # <<>>
         /\ exitCalls[1] = [code |-> 2, detail |-> <<s_kind>>,
                            message |-> "expects a single value but was set multiple times"]

\* C21: on a successful parse, an array-typed argument declared with a
\* non-empty default that occurs on the command line ends with exactly the
\* validated values of its command-line occurrences, in argv order: no
\* element of the default is kept.
C21_ArrayDefaultReplaced ==
  Successful =>
    \A i \in 1..Len(combinedOptions) :
      LET key == combinedOptions[i][1]
          d == combinedOptions[i][2]
      IN  (/\ IsArrayTyped(d)
           /\ d.defaultValue.t = "array" /\ d.defaultValue.v # <<>>
           /\ CommandLineValues(d, hookLog) # <<>>) =>
            Get(result.args, key) = Arr(CommandLineValues(d, hookLog))

\* the keys of the default of the map argument map
DefaultMapKeys ==
  LET d == Get(cliArgs, s_map).defaultValue
  IN  IF d.t = "map" THEN {d.v[i][1] : i \in 1..Len(d.v)} ELSE {}

\* C22: when argv is one occurrence of the map argument --map, declared
\* with a default, whose key is a key of the default, the parse succeeds and
\* the map of the result has the supplied values under that key.
C22_MapDefaultKeyOverridden ==
  (/\ pc = "done" /\ Len(args) >= 3 /\ args[1] = t_map
   /\ FirstChunkIsFinal /\ args[2] \in DefaultMapKeys) =>
    /\ Successful
    /\ Get(result.args, s_map).t = "map"
    /\ Get(Get(result.args, s_map).v, args[2]) = Tail(FirstChunkValues)

\* C23: for every flag configured with a character c, lower-case or
\* upper-case, the parse of the argv that is the single token -c, with c as
\* configured, succeeds with that flag true.
C23_AliasAsConfigured ==
  \A i \in 1..Len(cliArgs) :
    (/\ pc = "done" /\ cliArgs[i][2].character # NoCharacter
     /\ args = << <<Dash, cliArgs[i][2].character>> >>) =>
      Successful /\ Get(result.args, cliArgs[i][1]) = Bool(TRUE)

\* the global arguments whose name is not a name of the subcommand sub
GlobalsNotIn(sub) ==
  SelectSeq(cliArgs, LAMBDA e : ~Has(Get(subcommands, sub), e[1]))

\* the same call with the global arguments that share a name with an
\* argument of the subcommand sub left out of the configuration
WithoutSharedGlobals(sub) ==
  parseCliArguments([Call EXCEPT !.cliArgs = GlobalsNotIn(sub)], DeclaredHeap)

\* C24: when argv begins with the token of a subcommand that has an argument
\* with the name of a global argument, the parse is the parse of the same
\* call without that global argument: the same exits, the same hook calls
\* (of the subcommand's descriptor, once per environment variable and per
\* occurrence), the same value of every argument in the result.
C24_SubcommandDescriptorUsed ==
  (/\ pc = "done" /\ Len(args) >= 1 /\ Has(subcommands, args[1])
   /\ GlobalsNotIn(args[1]) # cliArgs) =>
    LET p == WithoutSharedGlobals(args[1])
    IN  /\ exitCalls = p.exitCalls
        /\ hookLog = p.hookLog
        /\ result.populated = p.result.populated
        /\ result.populated =>
             \A i \in 1..Len(result.args) :
               /\ Has(p.result.args, result.args[i][1])
               /\ Get(p.result.args, result.args[i][1]) = result.args[i][2]

\* the flags of the call whose PREFIX_NAME variable is in the environment
FlagsInEnvironment ==
  {i \in 1..Len(cliArgs) : HasPresent(cliArgs[i][2]) /\ EnvironmentValues(cliArgs[i][1]) # <<>>}

\* the environment with the variable of every flag set to "true"
FlagVariablesTrue ==
  [i \in 1..Len(additionalOptions.env) |->
     IF \E j \in FlagsInEnvironment :
          additionalOptions.env[i] \in {EnvironmentValues(cliArgs[j][1])[k] :
                                          k \in 1..Len(EnvironmentValues(cliArgs[j][1]))}
     THEN <<additionalOptions.env[i][1], s_true>>
     ELSE additionalOptions.env[i]]

\* the same call with the variable of every flag set to "true"
WithFlagVariablesTrue ==
  parseCliArguments([Call EXCEPT !.options.env = FlagVariablesTrue], DeclaredHeap)

\* C25: with envPrefix set and the variable PREFIX_NAME of a flag in the
\* environment, whatever its value: validateValues of the flag is not called
\* for the variable and no exit is made for it, every populated result has
\* the flag true, and the parse ends as it does with the value "true".
C25_FlagVariableAnyValue ==
  (pc = "done" /\ additionalOptions.envPrefix # NoPrefix) =>
    \A i \in FlagsInEnvironment :
      /\ \A h \in 1..Len(hookLog) :
           (hookLog[h].phase = "env" /\ hookLog[h].key = cliArgs[i][1]) =>
             hookLog[h].hook = "present"
      /\ \A e \in 1..Len(exitCalls) : exitCalls[e].message # "Invalid value for environment"
                                      \/ exitCalls[e].detail # <<EnvironmentValues(cliArgs[i][1])[1][1]>>
      /\ result.populated => Get(result.args, cliArgs[i][1]) = Bool(TRUE)
      /\ exitCalls = WithFlagVariablesTrue.exitCalls
      /\ result = WithFlagVariablesTrue.result

\* a successful parse with the variable of the flag dry set to the empty
\* string or to "false", with no token of the flag in argv and dry true
C25_Witness ==
  /\ Successful
  /\ \E i \in FlagsInEnvironment :
       /\ EnvironmentValues(cliArgs[i][1])[1][2] \in {<<>>, s_false}
       /\ Get(result.args, cliArgs[i][1]) = Bool(TRUE)
       /\ ~Has(parsedArgs, cliArgs[i][1])
       /\ Hook("present", "env", cliArgs[i][1], <<>>, TRUE) \in {hookLog[h] : h \in 1..Len(hookLog)}

\* an iteration of the loop on a chunk headed by --version
VersionChunk ==
  /\ pc = "chunks" /\ chunkIndex <= Len(commandChunks) /\ chunkIndex' = chunkIndex + 1
  /\ commandChunks[chunkIndex].first = VersionToken

C27_ExitIsFinal ==
  /\ [](exitCalls # <<>> => Len(exitCalls) = 1 /\ ~result.populated)
  /\ [][exitCalls # <<>> =>
          /\ hookLog' = hookLog /\ exitCalls' = exitCalls
          /\ operands' = operands /\ parsedArgs' = parsedArgs
          /\ parsedEnvironmentArgs' = parsedEnvironmentArgs
          /\ ~result'.populated]_vars

\* C28: on a successful parse with operands permitted, result.operands is a
\* subsequence of argv: the operands are tokens of argv, in the order in which
\* they occur there.
C28_OperandsInArgvOrder ==
  (Successful /\ additionalOptions.expectOperands) => IsSubsequence(result.operands, args)

\* how often a token occurs in a sequence of tokens
Count(t, seq) == Cardinality({i \in 1..Len(seq) : seq[i] = t})

\* the heads of the chunks that start with a dash, the -- chunk left out
RECURSIVE DashHeads(_)
DashHeads(chunks) ==
  IF chunks = <<>> THEN <<>>
  ELSE (IF startsWith(Head(chunks).first, <<Dash>>) /\ Head(chunks).first # Separator
        THEN <<Head(chunks).first>> ELSE <<>>) \o DashHeads(Tail(chunks))

\* the values passed to validateValues for the command line, in call order
RECURSIVE ValidatedTokens(_)
ValidatedTokens(log) ==
  IF log = <<>> THEN <<>>
  ELSE (IF Head(log).hook = "validate" /\ Head(log).phase = "cli" THEN Head(log).values
        ELSE <<>>) \o ValidatedTokens(Tail(log))

\* the tokens of argv that the parse has used: the token of the selected
\* subcommand, the separator, the heads of the argument and flag chunks, the
\* values passed to validateValues and the operands
Accounted ==
  (IF result.subcommand # Undefined THEN <<args[1]>> ELSE <<>>)
  \o (IF HasSeparator THEN <<Separator>> ELSE <<>>)
  \o DashHeads(commandChunks) \o ValidatedTokens(hookLog) \o result.operands

\* C29: on a successful parse with operands permitted, every token of argv is
\* used exactly once: as the token of the selected subcommand, as the
\* separator, as the head of an argument or flag chunk, as a value passed to
\* validateValues, or as an operand of the result.
C29_NoTokenDiscarded ==
  (Successful /\ additionalOptions.expectOperands) =>
    \A t \in {args[i] : i \in 1..Len(args)} \cup {Accounted[i] : i \in 1..Len(Accounted)} :
      Count(t, args) = Count(t, Accounted)

\* C30: every call of printOptions returns: for every configuration and
\* every terminal width the while loop that wraps the description of an
\* option ends, and so does the loop over the options.
C30_HelpTerminates == <>(helpPc = "returned")

====
